---- MODULE Spec2Model ----
(***************************************************************************)
(* Model of the structured-document codec of the Consistency-Engine        *)
(* repository: the heuristic schema tree builder (ElsevierConverter.convert *)
(* with _build_floats / _build_head / _build_body), the namespace tag codec *)
(* (_expand_tag / _expand_attr / qname_to_prefixed) and the lossless path   *)
(* (_convert_from_structured_data, generate_structured_json_from_xml).      *)
(* Text is modelled as a sequence of one-character strings.                 *)
(***************************************************************************)
EXTENDS Integers, Sequences, FiniteSets, TLC

\* ------------------------------------------------------------------------
\* Text helpers (Python str / re primitives used by the source)
\* ------------------------------------------------------------------------

\* a local variable: F applied to the value x it was assigned
With(x, F(_)) == F(x)

\* Python None
None == <<"None">>

UpperChars ==
    <<"A","B","C","D","E","F","G","H","I","J","K","L","M",
      "N","O","P","Q","R","S","T","U","V","W","X","Y","Z">>

LowerChars ==
    <<"a","b","c","d","e","f","g","h","i","j","k","l","m",
      "n","o","p","q","r","s","t","u","v","w","x","y","z">>

DigitChars == <<"0","1","2","3","4","5","6","7","8","9">>

\* regex \d
IsDigit(c) == \E k \in 1..10 : DigitChars[k] = c

\* regex \s and the characters str.strip() removes
IsSpace(c) == c \in {" ", "\t", "\n", "\r", "\f"}

\* regex \w
IsWord(c) ==
    \/ IsDigit(c)
    \/ c = "_"
    \/ \E k \in 1..26 : UpperChars[k] = c \/ LowerChars[k] = c

\* s[a-1:b] of Python for 1-based, inclusive positions a..b: positions outside
\* the string are left out
Slice(s, a, b) ==
    LET lo == IF a < 1 THEN 1 ELSE a
        hi == IF b > Len(s) THEN Len(s) ELSE b
    IN  IF lo > hi THEN <<>> ELSE SubSeq(s, lo, hi)

\* str.lower() on one character
LowerChar(c) ==
    IF \E k \in 1..26 : UpperChars[k] = c
    THEN LowerChars[CHOOSE k \in 1..26 : UpperChars[k] = c]
    ELSE c

\* str.lower()
Lower(s) == [k \in 1..Len(s) |-> LowerChar(s[k])]

\* str.startswith
StartsWith(s, p) == Len(s) >= Len(p) /\ Slice(s, 1, Len(p)) = p

\* s[p:] with a 1-based p
From(s, p) == Slice(s, p, Len(s))

\* the first position >= p of s whose character is not in class P (Len(s)+1
\* if there is none): where a greedy P* started at p stops
SkipWhile(s, p, P(_)) ==
    CHOOSE q \in p..(Len(s) + 1) :
        /\ \A k \in p..(q - 1) : P(s[k])
        /\ q = Len(s) + 1 \/ ~P(s[q])

\* the last position of s whose character is not white space (0 if none)
LastNonSpace(s) ==
    CHOOSE q \in 0..Len(s) :
        /\ \A k \in (q + 1)..Len(s) : IsSpace(s[k])
        /\ q = 0 \/ ~IsSpace(s[q])

\* str.strip()
Strip(s) == Slice(s, SkipWhile(s, 1, IsSpace), LastNonSpace(s))

\* str.find(sub, start) with 1-based positions; 0 when absent (Python's -1)
Find(s, sub, start) ==
    LET hits == {k \in start..(Len(s) - Len(sub) + 1) :
                    Slice(s, k, k + Len(sub) - 1) = sub}
    IN  IF hits = {} THEN 0 ELSE CHOOSE k \in hits : \A j \in hits : k <= j

\* sub in s
Contains(s, sub) == Find(s, sub, 1) # 0

\* decimal digits of a natural number
RECURSIVE NatToStr(_)
NatToStr(n) ==
    IF n < 10 THEN <<DigitChars[n + 1]>>
    ELSE NatToStr(n \div 10) \o <<DigitChars[(n % 10) + 1]>>

\* the format "%04d" / f"{n:04d}"
Fmt04d(n) ==
    LET d == NatToStr(n)
    IN  [k \in 1..(IF Len(d) < 4 THEN 4 - Len(d) ELSE 0) |-> "0"] \o d

\* "".join(parts)
RECURSIVE Join(_)
Join(parts) == IF parts = <<>> THEN <<>> ELSE Head(parts) \o Join(Tail(parts))

\* ------------------------------------------------------------------------
\* Heuristic path: ElsevierConverter.convert on a DOCX
\* (src/t2 - Copy - Copy/convert_elsevier.py)
\* ------------------------------------------------------------------------

\* bound: the number of paragraphs of the input document
MaxParas == 3

\* Title
T_Title ==
    <<"T","i","t","l","e">>

\* 1. Introduction
T_Intro ==
    <<"1","."," ","I","n","t","r","o","d","u","c","t","i","o","n">>

\* Some text.
T_SomeText ==
    <<"S","o","m","e"," ","t","e","x","t",".">>

\* Fig. 2: Sample image
T_Fig2 ==
    <<"F","i","g","."," ","2",":"," ","S","a","m","p","l","e"," ","i","m",
      "a","g","e">>

\* the (p.text, p.style.name) pairs a document's paragraphs are drawn from
SampleParas ==
    { [text |-> T_Title,    style |-> <<"T","i","t","l","e">>],
      [text |-> T_Intro,    style |-> <<"N","o","r","m","a","l">>],
      [text |-> T_SomeText, style |-> <<"N","o","r","m","a","l">>],
      [text |-> T_Fig2,     style |-> <<"C","a","p","t","i","o","n">>],
      \* "Fig. 7" and " Fig. 3" in style Normal
      [text |-> <<"F","i","g","."," ","7">>,
       style |-> <<"N","o","r","m","a","l">>],
      [text |-> <<" ","F","i","g","."," ","3">>,
       style |-> <<"N","o","r","m","a","l">>],
      \* "Methods" in style Heading 1
      [text |-> <<"M","e","t","h","o","d","s">>,
       style |-> <<"H","e","a","d","i","n","g"," ","1">>],
      \* a blank paragraph
      [text |-> <<" ">>, style |-> <<"N","o","r","m","a","l">>] }

\* the extractor sequence of the worked scenario:
\* [("Title","Title"), ("1. Introduction","Normal"), ("Some text.","Normal"),
\*  ("Fig. 2: Sample image","Caption")]
ScenarioParagraphs ==
    << [text |-> T_Title,    style |-> <<"T","i","t","l","e">>],
       [text |-> T_Intro,    style |-> <<"N","o","r","m","a","l">>],
       [text |-> T_SomeText, style |-> <<"N","o","r","m","a","l">>],
       [text |-> T_Fig2,     style |-> <<"C","a","p","t","i","o","n">>] >>

\* a document whose body text lies in two sections:
\* [("Title","Title"), ("Some text.","Normal"), ("Methods","Heading 1"),
\*  ("Fig. 7","Normal")]
TwoSectionParagraphs ==
    << [text |-> T_Title,    style |-> <<"T","i","t","l","e">>],
       [text |-> T_SomeText, style |-> <<"N","o","r","m","a","l">>],
       [text |-> <<"M","e","t","h","o","d","s">>,
        style |-> <<"H","e","a","d","i","n","g"," ","1">>],
       [text |-> <<"F","i","g","."," ","7">>,
        style |-> <<"N","o","r","m","a","l">>] >>

\* doc.paragraphs of the documents considered: every sequence of at most
\* MaxParas sample paragraphs, the worked scenario and the two-section document
Docs ==
    UNION { [1..n -> SampleParas] : n \in 0..MaxParas }
        \cup { ScenarioParagraphs, TwoSectionParagraphs }

\* [(p.text.strip(), style) for p in doc.paragraphs if p.text.strip()]
RECURSIVE ExtractParagraphs(_)
ExtractParagraphs(d) ==
    IF d = <<>> THEN <<>>
    ELSE LET t == Strip(Head(d).text)
         IN  (IF t # <<>> THEN <<[text |-> t, style |-> Head(d).style]>> ELSE <<>>)
             \o ExtractParagraphs(Tail(d))

\* re.match(r"^(Fig\.|Figure)\s*(\d+)[\.:]?\s*(.*)$", line, re.IGNORECASE):
\* [matched, fig_num (group 2), rest (group 3)]
MatchCaption(line) ==
    LET low == Lower(line)
        g1  == IF StartsWith(low, <<"f","i","g",".">>) THEN 4
               ELSE IF StartsWith(low, <<"f","i","g","u","r","e">>) THEN 6
               ELSE 0
        p2  == SkipWhile(line, g1 + 1, IsSpace)
        p3  == SkipWhile(line, p2, IsDigit)
        p4  == IF p3 <= Len(line) /\ line[p3] \in {".", ":"} THEN p3 + 1 ELSE p3
        p5  == SkipWhile(line, p4, IsSpace)
        ok  == /\ g1 > 0
               /\ p3 > p2
               /\ \A k \in p5..Len(line) : line[k] # "\n"
    IN  IF ok
        THEN [matched |-> TRUE, fig_num |-> Slice(line, p2, p3 - 1),
              rest |-> From(line, p5)]
        ELSE [matched |-> FALSE, fig_num |-> <<>>, rest |-> <<>>]

\* re.match(r"^\d+\.\s", text)
MatchNumbering(text) ==
    LET p == SkipWhile(text, 1, IsDigit)
    IN  /\ p > 1
        /\ p + 1 <= Len(text)
        /\ text[p] = "."
        /\ IsSpace(text[p + 1])

\* is_header = style.lower().startswith("heading") or re.match(r"^\d+\.\s", text)
IsHeader(text, style) ==
    \/ StartsWith(Lower(style), <<"h","e","a","d","i","n","g">>)
    \/ MatchNumbering(text)

\* f"f{5*fig_count:04d}", f"ca{5*fig_count:04d}", f"sp{5*fig_count:04d}"
FigId(fig_count) == <<"f">> \o Fmt04d(5 * fig_count)

CaId(fig_count) == <<"c","a">> \o Fmt04d(5 * fig_count)

\* a simple-para id that repeats the id of its caption
SpId_sameAsCaption(fig_count) == <<"c","a">> \o Fmt04d(5 * fig_count)

SpId(fig_count) == <<"s","p">> \o Fmt04d(5 * fig_count)

\* locator=f"gr{fig_num}"
Locator(fig_num) == <<"g","r">> \o fig_num

\* f"Fig. {fig_num}"
FigLabel(fig_num) == <<"F","i","g","."," ">> \o fig_num

\* match.group(3).strip() or f"Figure {fig_num}"
CaptionText(m) ==
    IF Strip(m.rest) # <<>> THEN Strip(m.rest)
    ELSE <<"F","i","g","u","r","e"," ">> \o m.fig_num

\* f"pii:S0960077924011366/gr{fig_num}"
PiiPrefix ==
    <<"p","i","i",":","S","0","9","6","0","0","7","7","9","2","4","0","1",
      "1","3","6","6","/">>

\* a figure whose ids are formed before fig_count is incremented
Figure_countedFromZero(fig_count, m) ==
    [id      |-> FigId(fig_count - 1),
     label   |-> FigLabel(m.fig_num),
     ca_id   |-> CaId(fig_count - 1),
     sp_id   |-> SpId(fig_count - 1),
     caption |-> CaptionText(m),
     locator |-> Locator(m.fig_num),
     href    |-> PiiPrefix \o Locator(m.fig_num)]

\* the ce:figure subtree _build_floats appends for one matching line
Figure(fig_count, m) ==
    [id      |-> FigId(fig_count),
     label   |-> FigLabel(m.fig_num),
     ca_id   |-> CaId(fig_count),
     sp_id   |-> SpId(fig_count),
     caption |-> CaptionText(m),
     locator |-> Locator(m.fig_num),
     href    |-> PiiPrefix \o Locator(m.fig_num)]

\* f"s{sec_idx:04d}", f"st{sec_idx:04d}", f"p{para_idx:04d}"
SecId(idx) == <<"s">> \o Fmt04d(idx)

StId(idx) == <<"s","t">> \o Fmt04d(idx)

\* a paragraph id formed from a counter that starts at 0
ParaId_countedFromZero(idx) == <<"p">> \o Fmt04d(idx - 10)

ParaId(idx) == <<"p">> \o Fmt04d(idx)

\* the ce:section a header paragraph opens: id and a ce:section-title
HeaderSection(idx, text) ==
    [id |-> SecId(idx), st_id |-> StId(idx), title |-> text, paras |-> <<>>]

\* the default ce:section opened when text appears before the first header:
\* an id and no ce:section-title child
DefaultSection(idx) ==
    [id |-> SecId(idx), st_id |-> None, title |-> None, paras |-> <<>>]


\* ------------------------------------------------------------------------
\* Namespace tag codec: _expand_tag, _expand_attr, qname_to_prefixed
\* (src/t2 - Copy - Copy/convert_elsevier.py)
\* ------------------------------------------------------------------------

\* self.XML_NS
XML_NS ==
    <<"h","t","t","p",":","/","/","w","w","w",".","w","3",".","o","r","g",
      "/","X","M","L","/","1","9","9","8","/","n","a","m","e","s","p","a",
      "c","e">>

\* a value returned by a call
Ok(v) == [err |-> "", val |-> v]

\* an exception raised by a call: ValueError("Unknown namespace prefix: ..."),
\* ValueError("Unsupported node type: ..."), ValueError("Structured element
\* missing 'tag'."), ValueError("Template usage is disabled ..." / "Structured
\* data missing or invalid 'article' object."), lxml's ValueError("Invalid tag
\* name ..."), and Python's "not enough values to unpack"
Raise(kind) == [err |-> kind, val |-> <<>>]

\* no call has returned yet
Pending == [err |-> "pending", val |-> <<>>]

\* ":" in name
HasColon(name) == Contains(name, <<":">>)

\* prefix, local = name.split(":", 1)
PrefixOf(name) == Slice(name, 1, Find(name, <<":">>, 1) - 1)

LocalOf(name) == From(name, Find(name, <<":">>, 1) + 1)

\* f"{{{ns}}}{local}"
Clark(ns, local) == <<"{">> \o ns \o <<"}">> \o local

\* _expand_tag that passes a name with an undeclared prefix through unchanged
ExpandTag_passThrough(tag, nsmap_lookup) ==
    IF ~HasColon(tag) THEN Ok(tag)
    ELSE IF PrefixOf(tag) \notin DOMAIN nsmap_lookup THEN Ok(tag)
    ELSE Ok(Clark(nsmap_lookup[PrefixOf(tag)], LocalOf(tag)))

\* _expand_tag(tag, nsmap_lookup)
ExpandTag(tag, nsmap_lookup) ==
    IF ~HasColon(tag) THEN Ok(tag)
    ELSE IF PrefixOf(tag) \notin DOMAIN nsmap_lookup THEN Raise("UnknownPrefix")
    ELSE Ok(Clark(nsmap_lookup[PrefixOf(tag)], LocalOf(tag)))

\* _expand_attr(name, nsmap_lookup)
ExpandAttr(name, nsmap_lookup) ==
    IF ~HasColon(name) THEN Ok(name)
    ELSE IF PrefixOf(name) = <<"x","m","l">> THEN Ok(Clark(XML_NS, LocalOf(name)))
    ELSE IF PrefixOf(name) \notin DOMAIN nsmap_lookup THEN Raise("UnknownPrefix")
    ELSE Ok(Clark(nsmap_lookup[PrefixOf(name)], LocalOf(name)))

\* qname_to_prefixed with its test inverted: the prefix is dropped when the
\* URI has one
QnameToPrefixed_dropsPrefix(qname, ns_to_prefix) ==
    IF qname # <<>> /\ Head(qname) = "{"
    THEN LET close == Find(qname, <<"}">>, 2)
             uri   == Slice(qname, 2, close - 1)
             local == From(qname, close + 1)
         IN  IF close = 0 THEN Raise("Unpack")
             ELSE IF uri \in DOMAIN ns_to_prefix /\ ns_to_prefix[uri] # <<>>
                  THEN Ok(local)
                  ELSE Ok(uri \o <<":">> \o local)
    ELSE Ok(qname)

\* _build_structured_node.qname_to_prefixed(name), with its ns_to_prefix
QnameToPrefixed(qname, ns_to_prefix) ==
    IF qname # <<>> /\ Head(qname) = "{"
    THEN LET close == Find(qname, <<"}">>, 2)
             uri   == Slice(qname, 2, close - 1)
             local == From(qname, close + 1)
         IN  IF close = 0 THEN Raise("Unpack")
             ELSE IF uri \notin DOMAIN ns_to_prefix \/ ns_to_prefix[uri] = <<>>
                  THEN Ok(local)
                  ELSE Ok(ns_to_prefix[uri] \o <<":">> \o local)
    ELSE Ok(qname)

\* the prefixes and namespace URIs the prefix maps are drawn from
SamplePrefixes == { <<"c","e">>, <<"x","m","l">>, <<"z","z">>, <<>> }

\* urn:a, urn:b and the XML namespace
SampleUris == { <<"u","r","n",":","a">>, <<"u","r","n",":","b">>, XML_NS }

\* the prefix -> URI maps (Python dicts) considered
SampleMaps == UNION { [D -> SampleUris] : D \in SUBSET SamplePrefixes }

\* the element tags / attribute names considered: bare, prefixed, with the
\* reserved prefix, with two colons, with an empty prefix
SampleNames ==
    { <<"p","a","r","a">>,
      <<"c","e",":","p","a","r","a">>,
      <<"x","m","l",":","l","a","n","g">>,
      <<"z","z",":","x">>,
      <<"c","e",":","a",":","b">>,
      <<":","x">> }

\* the URI -> prefix dicts that invert a prefix map (one, when its URIs are
\* pairwise distinct; otherwise the entry kept depends on the dict's order)
InverseMaps(m) ==
    LET uris == { m[p] : p \in DOMAIN m }
    IN  { inv \in [uris -> DOMAIN m] : \A u \in uris : m[inv[u]] = u }


\* ------------------------------------------------------------------------
\* Lossless path: _convert_from_structured_data, _build_element and the lxml
\* tree it builds and serializes (src/t2 - Copy - Copy/convert_elsevier.py)
\* ------------------------------------------------------------------------

\* dict.get(key, default); a JSON object is a record whose fields are its keys
Get(d, key, default) == IF key \in DOMAIN d THEN d[key] ELSE default

\* self.NSMAP: an ordered dict as a sequence of (key, value) items; the key
\* None is the default namespace
NSMAP ==
    << \* None: http://www.elsevier.com/xml/ja/dtd
       [k |-> None,
        v |-> <<"h","t","t","p",":","/","/","w","w","w",".","e","l","s","e",
                "v","i","e","r",".","c","o","m","/","x","m","l","/","j","a",
                "/","d","t","d">>],
       \* "ce": http://www.elsevier.com/xml/common/dtd
       [k |-> <<"c","e">>,
        v |-> <<"h","t","t","p",":","/","/","w","w","w",".","e","l","s","e",
                "v","i","e","r",".","c","o","m","/","x","m","l","/","c","o",
                "m","m","o","n","/","d","t","d">>],
       \* "sa": http://www.elsevier.com/xml/common/struct-aff/dtd
       [k |-> <<"s","a">>,
        v |-> <<"h","t","t","p",":","/","/","w","w","w",".","e","l","s","e",
                "v","i","e","r",".","c","o","m","/","x","m","l","/","c","o",
                "m","m","o","n","/","s","t","r","u","c","t","-","a","f","f",
                "/","d","t","d">>],
       \* "sb": http://www.elsevier.com/xml/common/struct-bib/dtd
       [k |-> <<"s","b">>,
        v |-> <<"h","t","t","p",":","/","/","w","w","w",".","e","l","s","e",
                "v","i","e","r",".","c","o","m","/","x","m","l","/","c","o",
                "m","m","o","n","/","s","t","r","u","c","t","-","b","i","b",
                "/","d","t","d">>],
       \* "xlink": http://www.w3.org/1999/xlink
       [k |-> <<"x","l","i","n","k">>,
        v |-> <<"h","t","t","p",":","/","/","w","w","w",".","w","3",".","o",
                "r","g","/","1","9","9","9","/","x","l","i","n","k">>] >>

\* the keys of an ordered dict
Keys(items) == { items[i].k : i \in 1..Len(items) }

\* an ordered dict as the function dict.get / dict[...] reads
AsMap(items) ==
    [key \in Keys(items) |->
        items[CHOOSE i \in 1..Len(items) : items[i].k = key].v]

\* d[key] = value on an ordered dict: an existing key keeps its place
RECURSIVE SetItem(_, _, _)
SetItem(items, key, value) ==
    IF items = <<>> THEN <<[k |-> key, v |-> value]>>
    ELSE IF Head(items).k = key THEN <<[k |-> key, v |-> value]>> \o Tail(items)
    ELSE <<Head(items)>> \o SetItem(Tail(items), key, value)

\* lxml accepts a tag or attribute name: a plain name or {uri}name whose name
\* part is an XML name without a colon
LxmlNameValid(n) ==
    LET local == IF n # <<>> /\ Head(n) = "{" /\ Contains(n, <<"}">>)
                 THEN From(n, Find(n, <<"}">>, 1) + 1)
                 ELSE n
    IN  /\ local # <<>>
        /\ ~IsDigit(local[1])
        /\ \A i \in 1..Len(local) : IsWord(local[i]) \/ local[i] \in {"-", "."}
        /\ local[1] \notin {"-", "."}

\* {k if k != "default" else None: v for k, v in nsmap_override.items()}
RootNsmap(items) ==
    [i \in 1..Len(items) |->
        [k |-> IF items[i].k = <<"d","e","f","a","u","l","t">> THEN None
               ELSE items[i].k,
         v |-> items[i].v]]

\* lxml declares the default namespace of an nsmap after the prefixed ones
DefaultLast(items) ==
    SelectSeq(items, LAMBDA it : it.k # None)
    \o SelectSeq(items, LAMBDA it : it.k = None)

\* an lxml element: tag, own namespace declarations, attributes, text,
\* children and tail
Element(tag, nsmap, attrib, text, children, tail) ==
    [kind |-> "element", tag |-> tag, nsmap |-> nsmap, attrib |-> attrib,
     text |-> text, children |-> children, tail |-> tail]

\* etree.Comment(text) with its tail
CommentNode(text, tail) == [kind |-> "comment", text |-> text, tail |-> tail]

\* the attributes of an element after element.set(name, str(value)) for each
\* item of node["attrs"], names expanded when use_namespaces is set
RECURSIVE SetAttrs(_, _, _, _)
SetAttrs(attrs, use_namespaces, lookup, acc) ==
    IF attrs = <<>> THEN Ok(acc)
    ELSE LET nm == IF use_namespaces THEN ExpandAttr(Head(attrs).k, lookup)
                   ELSE Ok(Head(attrs).k)
         IN  IF nm.err # "" THEN nm
             ELSE IF ~LxmlNameValid(nm.val) THEN Raise("InvalidName")
             ELSE SetAttrs(Tail(attrs), use_namespaces, lookup,
                           SetItem(acc, nm.val, Head(attrs).v))

\* _build_element(node, is_root, use_namespaces, nsmap_override): the element
\* or comment built, or the exception raised; ns is [dict, items]: whether
\* nsmap_override is a dict, and its items
RECURSIVE BuildElement(_, _, _, _)
RECURSIVE BuildChildren(_, _, _, _)
\* the children built with a child that fails to build left out
RECURSIVE BuildChildren_skipsFailed(_, _, _, _)
BuildChildren_skipsFailed(children, use_namespaces, ns, acc) ==
    IF children = <<>> THEN Ok(acc)
    ELSE LET c == BuildElement(Head(children), FALSE, use_namespaces, ns)
         IN  BuildChildren_skipsFailed(Tail(children), use_namespaces, ns,
                 IF c.err # "" THEN acc ELSE Append(acc, c.val))

\* the children of node["children"], built in order
BuildChildren(children, use_namespaces, ns, acc) ==
    IF children = <<>> THEN Ok(acc)
    ELSE LET c == BuildElement(Head(children), FALSE, use_namespaces, ns)
         IN  IF c.err # "" THEN c
             ELSE BuildChildren(Tail(children), use_namespaces, ns,
                                Append(acc, c.val))

BuildElement(node, is_root, use_namespaces, ns) ==
    LET node_type == Get(node, "type", "element")
        lookup    == IF ns.dict THEN AsMap(ns.items) ELSE AsMap(NSMAP)
        tag       == IF use_namespaces THEN ExpandTag(Get(node, "tag", <<>>), lookup)
                     ELSE Ok(Get(node, "tag", <<>>))
        nsmap     == IF is_root /\ use_namespaces
                     THEN (IF ns.dict THEN RootNsmap(ns.items) ELSE NSMAP)
                     ELSE <<>>
        attrib    == SetAttrs(Get(node, "attrs", <<>>), use_namespaces, lookup, <<>>)
        children  == BuildChildren(Get(node, "children", <<>>), use_namespaces,
                                   ns, <<>>)
    IN  IF node_type = "comment"
        THEN Ok(CommentNode(Get(node, "text", <<>>), Get(node, "tail", None)))
        ELSE IF node_type # "element" THEN Raise("UnsupportedNodeType")
        ELSE IF tag.err # "" THEN tag
        ELSE IF tag.val = <<>> THEN Raise("MissingTag")
        ELSE IF ~LxmlNameValid(tag.val) THEN Raise("InvalidName")
        ELSE IF attrib.err # "" THEN attrib
        ELSE IF children.err # "" THEN children
        ELSE Ok([kind     |-> "element",
                 tag      |-> tag.val,
                 nsmap    |-> DefaultLast(nsmap),
                 attrib   |-> attrib.val,
                 text     |-> Get(node, "text", None),
                 children |-> children.val,
                 tail     |-> Get(node, "tail", None)])

\* libxml2's escaping of character data
RECURSIVE EscapeText(_)
EscapeText(s) ==
    IF s = <<>> THEN <<>>
    ELSE (CASE Head(s) = "&" -> <<"&","a","m","p",";">>
            [] Head(s) = "<" -> <<"&","l","t",";">>
            [] Head(s) = ">" -> <<"&","g","t",";">>
            [] OTHER -> <<Head(s)>>) \o EscapeText(Tail(s))

\* libxml2's escaping of an attribute value
RECURSIVE EscapeAttr(_)
EscapeAttr(s) ==
    IF s = <<>> THEN <<>>
    ELSE (CASE Head(s) = "&"  -> <<"&","a","m","p",";">>
            [] Head(s) = "<"  -> <<"&","l","t",";">>
            [] Head(s) = ">"  -> <<"&","g","t",";">>
            [] Head(s) = "\"" -> <<"&","q","u","o","t",";">>
            [] Head(s) = "\n" -> <<"&","#","1","0",";">>
            [] Head(s) = "\t" -> <<"&","#","9",";">>
            [] OTHER -> <<Head(s)>>) \o EscapeAttr(Tail(s))

\* the namespace URI of a Clark name ({uri}local), and its local part
ClarkUri(n) == Slice(n, 2, Find(n, <<"}">>, 1) - 1)

ClarkLocal(n) == From(n, Find(n, <<"}">>, 1) + 1)

IsClark(n) == n # <<>> /\ Head(n) = "{" /\ Contains(n, <<"}">>)

\* the declarations of the root's nsmap that bind uri (for an attribute,
\* only the prefixed ones)
Bindings(uri, rootNs, isAttr) ==
    SelectSeq(rootNs, LAMBDA it : it.v = uri /\ (~isAttr \/ it.k # None))

\* the name the serializer writes for a tag or attribute name: the prefix of
\* the first declaration in scope that binds its namespace, xml for the XML
\* namespace, and a generated prefix ns0 when no declaration binds it
Qualified(n, rootNs, isAttr) ==
    IF ~IsClark(n) THEN n
    ELSE IF ClarkUri(n) = XML_NS THEN <<"x","m","l",":">> \o ClarkLocal(n)
    ELSE IF Bindings(ClarkUri(n), rootNs, isAttr) = <<>>
         THEN <<"n","s","0",":">> \o ClarkLocal(n)
    ELSE IF Bindings(ClarkUri(n), rootNs, isAttr)[1].k = None THEN ClarkLocal(n)
    ELSE Bindings(ClarkUri(n), rootNs, isAttr)[1].k \o <<":">> \o ClarkLocal(n)

\* the declaration the serializer adds on a node whose namespace nothing in
\* scope binds
LocalDecl(n, rootNs, isAttr) ==
    IF IsClark(n) /\ ClarkUri(n) # XML_NS
       /\ Bindings(ClarkUri(n), rootNs, isAttr) = <<>>
    THEN <<" ","x","m","l","n","s",":","n","s","0","=","\"">>
         \o EscapeAttr(ClarkUri(n)) \o <<"\"">>
    ELSE <<>>

\* the xmlns declarations of an element's own nsmap
RECURSIVE NsDecls(_)
NsDecls(items) ==
    IF items = <<>> THEN <<>>
    ELSE (IF Head(items).k = None
          THEN <<" ","x","m","l","n","s","=","\"">>
          ELSE <<" ","x","m","l","n","s",":">> \o Head(items).k \o <<"=","\"">>)
         \o EscapeAttr(Head(items).v) \o <<"\"">> \o NsDecls(Tail(items))

\* the attributes of a start tag
RECURSIVE AttrText(_, _)
AttrText(attrib, rootNs) ==
    IF attrib = <<>> THEN <<>>
    ELSE LocalDecl(Head(attrib).k, rootNs, TRUE)
         \o <<" ">> \o Qualified(Head(attrib).k, rootNs, TRUE) \o <<"=","\"">>
         \o EscapeAttr(Head(attrib).v) \o <<"\"">>
         \o AttrText(Tail(attrib), rootNs)

\* None or "" written as nothing
TextOrEmpty(t) == IF t = None THEN <<>> ELSE t

\* etree.tostring(node, pretty_print=False, xml_declaration=False): a node,
\* its subtree and its tail
RECURSIVE Serialize(_, _)
RECURSIVE SerializeAll(_, _)
SerializeAll(nodes, rootNs) ==
    IF nodes = <<>> THEN <<>>
    ELSE Serialize(Head(nodes), rootNs) \o SerializeAll(Tail(nodes), rootNs)

Serialize(n, rootNs) ==
    IF n.kind = "comment"
    THEN <<"<","!","-","-">> \o n.text \o <<"-","-",">">> \o TextOrEmpty(n.tail)
    ELSE LET q     == Qualified(n.tag, rootNs, FALSE)
             start == <<"<">> \o q \o NsDecls(n.nsmap)
                      \o LocalDecl(n.tag, rootNs, FALSE)
                      \o AttrText(n.attrib, rootNs)
         IN  (IF n.text = None /\ n.children = <<>>
              THEN start \o <<"/",">">>
              ELSE start \o <<">">> \o EscapeText(TextOrEmpty(n.text))
                   \o SerializeAll(n.children, rootNs)
                   \o <<"<","/">> \o q \o <<">">>)
             \o EscapeText(TextOrEmpty(n.tail))

\* etree.tostring(root, ...).decode("utf-8")
EtreeToString(root) ==
    Serialize(root, IF root.kind = "element" THEN root.nsmap ELSE <<>>)

\* regex \b between positions i-1 and i of s
WordBoundary(s, i) ==
    (i > 1 /\ i - 1 <= Len(s) /\ IsWord(s[i - 1]))
    # (i >= 1 /\ i <= Len(s) /\ IsWord(s[i]))

\* re.search(rf"<{re.escape(root_tag)}\b[^>]*>", xml_str): [start, end] of the
\* first match, or [0, 0]
SearchStartTag(xml_str, root_tag) ==
    LET pat  == <<"<">> \o root_tag
        hits == { i \in 1..Len(xml_str) :
                    /\ Slice(xml_str, i, i + Len(pat) - 1) = pat
                    /\ WordBoundary(xml_str, i + Len(pat))
                    /\ Find(xml_str, <<">">>, i + Len(pat)) # 0 }
        first == CHOOSE i \in hits : \A j \in hits : i <= j
    IN  IF hits = {} THEN [start |-> 0, end |-> 0]
        ELSE [start |-> first, end |-> Find(xml_str, <<">">>, first + Len(pat))]

\* the end of a match of \sxmlns(?::\w+)?="[^"]*" that starts at i in t, or 0
XmlnsAttrEnd(t, i) ==
    LET kw  == <<"x","m","l","n","s">>
        a   == i + 6
        b   == IF a <= Len(t) /\ t[a] = ":" /\ SkipWhile(t, a + 1, IsWord) > a + 1
                  /\ Slice(t, SkipWhile(t, a + 1, IsWord),
                            SkipWhile(t, a + 1, IsWord) + 1) = <<"=","\"">>
               THEN SkipWhile(t, a + 1, IsWord)
               ELSE a
        q   == Find(t, <<"\"">>, b + 2)
    IN  IF /\ i >= 1 /\ i <= Len(t) /\ IsSpace(t[i])
           /\ Slice(t, i + 1, i + 5) = kw
           /\ Slice(t, b, b + 1) = <<"=","\"">>
           /\ q # 0
        THEN q ELSE 0

\* re.sub(r'\sxmlns(?::\w+)?=\"[^\"]*\"', "", start_tag), from position i on
RECURSIVE SubXmlns(_, _)
SubXmlns(t, i) ==
    IF i > Len(t) THEN <<>>
    ELSE IF XmlnsAttrEnd(t, i) # 0 THEN SubXmlns(t, XmlnsAttrEnd(t, i) + 1)
    ELSE <<t[i]>> \o SubXmlns(t, i + 1)

\* str.replace(old, new, 1)
ReplaceFirst(s, old, new) ==
    With(Find(s, old, 1), LAMBDA i :
        IF i = 0 THEN s
        ELSE Slice(s, 1, i - 1) \o new \o From(s, i + Len(old)))

\* _strip_root_xmlns(xml_str, root_tag)
StripRootXmlns(xml_str, root_tag) ==
    LET m         == SearchStartTag(xml_str, root_tag)
        start_tag == Slice(xml_str, m.start, m.end)
    IN  IF m.start = 0 THEN xml_str
        ELSE ReplaceFirst(xml_str, start_tag, SubXmlns(start_tag, 1))

\* tag.split(":", 1)[-1]
AfterColon(tag) == IF HasColon(tag) THEN LocalOf(tag) ELSE tag

\* a preamble with each suffix joined to the segment it follows whether or
\* not that segment is present
AssembleParts_suffixAlways(xml_decl, xml_decl_suffix, doctype, doctype_suffix, xml_str) ==
    xml_decl \o xml_decl_suffix \o doctype \o doctype_suffix \o xml_str

\* lines 94-100: parts = [...]; "".join(parts)
AssembleParts(xml_decl, xml_decl_suffix, doctype, doctype_suffix, xml_str) ==
    Join( (IF xml_decl # <<>> THEN <<xml_decl \o xml_decl_suffix>> ELSE <<>>)
          \o (IF doctype # <<>> THEN <<doctype \o doctype_suffix>> ELSE <<>>)
          \o <<xml_str>> )

\* json null, or any value that is neither a str nor a dict
JsonNull == [j |-> "null"]

\* the body rendered with a missing or invalid article defaulted to an empty
\* object instead of being rejected
RenderBody_defaultsArticle(data) ==
    LET use_namespaces == Get(data, "use_namespaces", TRUE)
        ns   == IF "namespaces" \in DOMAIN data
                THEN [dict |-> TRUE, items |-> data.namespaces]
                ELSE [dict |-> FALSE, items |-> <<>>]
        node == IF "article" \in DOMAIN data /\ data.article.j = "obj"
                THEN data.article.obj ELSE <<>>
        root == BuildElement(node, TRUE, use_namespaces, ns)
    IN  IF root.err # "" THEN root
        ELSE IF Get(data, "strip_namespaces", FALSE)
             THEN Ok(StripRootXmlns(EtreeToString(root.val),
                                    AfterColon(Get(node, "tag", <<"a","r","t","i","c","l","e">>))))
             ELSE Ok(EtreeToString(root.val))

\* _convert_from_structured_data, lines 66-92: the local xml_str (the root
\* built, serialized and, with strip_namespaces, stripped), or the exception
\* raised on the way
RenderBody(data) ==
    LET article          == Get(data, "article", JsonNull)
        use_namespaces   == Get(data, "use_namespaces", TRUE)
        ns               == IF "namespaces" \in DOMAIN data
                            THEN [dict |-> TRUE, items |-> data.namespaces]
                            ELSE [dict |-> FALSE, items |-> <<>>]
        strip_namespaces == Get(data, "strip_namespaces", FALSE)
        root             == BuildElement(article.obj, TRUE, use_namespaces, ns)
        root_tag         == AfterColon(Get(article.obj, "tag",
                                           <<"a","r","t","i","c","l","e">>))
    IN  IF article.j = "str" THEN Raise("InvalidStructuredData")
        ELSE IF article.j # "obj" THEN Raise("InvalidStructuredData")
        ELSE IF root.err # "" THEN root
        ELSE IF strip_namespaces
             THEN Ok(StripRootXmlns(EtreeToString(root.val), root_tag))
             ELSE Ok(EtreeToString(root.val))

\* _convert_from_structured_data(data): the text returned, or the exception
\* raised
ConvertFromStructuredData(data) ==
    IF RenderBody(data).err # "" THEN RenderBody(data)
    ELSE Ok(AssembleParts(Get(data, "xml_declaration", <<>>),
                          Get(data, "xml_decl_suffix", <<>>),
                          Get(data, "doctype", <<>>),
                          Get(data, "doctype_suffix", <<>>),
                          RenderBody(data).val))

\* ------------------------------------------------------------------------
\* Structured records given to the lossless path
\* ------------------------------------------------------------------------

\* a key of a JSON object that may be absent
Opt(key, present, value) == IF present THEN key :> value ELSE <<>>

\* a JSON object as the value of a key
JsonObj(node) == [j |-> "obj", obj |-> node]

\* ce:para
T_cePara ==
    <<"c","e",":","p","a","r","a">>

\* ce:section
T_ceSection ==
    <<"c", "e", ":", "s", "e", "c", "t", "i", "o", "n">>

\* article
T_article ==
    <<"a","r","t","i","c","l","e">>

\* Hello
T_Hello ==
    <<"H", "e", "l", "l", "o">>

\* <?xml version="1.0" encoding="UTF-8"?>
T_XmlDecl ==
    <<"<","?","x","m","l"," ","v","e","r","s","i","o","n","=","\"","1",".",
      "0","\""," ","e","n","c","o","d","i","n","g","=","\"","U","T","F","-",
      "8","\"","?",">">>

\* <!DOCTYPE article [<!ENTITY gr1 SYSTEM "gr1" NDATA IMAGE>]>
T_Doctype ==
    <<"<","!","D","O","C","T","Y","P","E"," ","a","r","t","i","c","l","e",
      " ","[","<","!","E","N","T","I","T","Y"," ","g","r","1"," ","S","Y",
      "S","T","E","M"," ","\"","g","r","1","\""," ","N","D","A","T","A"," ",
      "I","M","A","G","E",">","]",">">>

\* urn:tmp:ce
URN_TMP_CE ==
    <<"u","r","n",":","t","m","p",":","c","e">>

\* structured nodes without children: a well-formed element, a comment, and
\* one node for each structural fault
N_para ==
    [tag   |-> T_cePara,
     attrs |-> << [k |-> <<"i","d">>, v |-> <<"p","1">>],
                  [k |-> <<"x","m","l",":","l","a","n","g">>, v |-> <<"e","n">>] >>,
     text  |-> T_Hello,
     tail  |-> <<"\n">>]

N_comment == [type |-> "comment", text |-> <<" ","c"," ">>, tail |-> <<"t">>]

N_badType == [type |-> "text", tag |-> <<"b">>]

LeafNodes ==
    { N_para, N_comment, N_badType,
      \* an element without a tag
      [text |-> <<"x">>],
      \* a tag with the undeclared prefix zz
      [tag |-> <<"z","z",":","x">>],
      \* an attribute name with the undeclared prefix zz
      [tag |-> <<"b">>, attrs |-> << [k |-> <<"z","z",":","k">>, v |-> <<"1">>] >>] }

\* the children lists of up to two nodes drawn from a set of nodes
ChildLists(nodes) ==
    {<<>>} \cup {<<a>> : a \in nodes} \cup {<<a, b>> : a \in nodes, b \in nodes}

\* elements holding leaf nodes
SectionNodes ==
    { [tag |-> T_ceSection, children |-> c] : c \in ChildLists(LeafNodes) }

\* the article objects considered: trees of depth up to 2 with faults at any
\* depth and position, and each kind of leaf as the root itself
ArticleNodes ==
    { [tag |-> T_article, children |-> c] :
        c \in ChildLists(LeafNodes \cup SectionNodes) }
    \cup LeafNodes

\* records that vary the tree and the namespace settings
TreeRecords ==
    { ("article" :> JsonObj(a))
      @@ Opt("use_namespaces", ~u, FALSE)
      @@ Opt("namespaces", n # 0, IF n = 1 THEN <<>>
                                  ELSE << [k |-> <<"c","e">>, v |-> URN_TMP_CE] >>)
      @@ ("xml_declaration" :> T_XmlDecl) @@ ("xml_decl_suffix" :> <<"\n">>)
      @@ ("doctype" :> T_Doctype) @@ ("doctype_suffix" :> <<"\n">>) :
        a \in ArticleNodes, u \in BOOLEAN, n \in {0, 1, 2} }

\* the values of "article" that are not objects: a template string, a list,
\* a number, null
NonObjects ==
    { [j |-> "str"], [j |-> "list"], [j |-> "num"], JsonNull }

\* two well-formed article objects
GoodArticles ==
    { [tag |-> T_article, children |-> <<N_para, N_comment>>],
      [tag |-> T_cePara, text |-> T_Hello] }

\* records that vary the value of "article" and the preamble
EnvelopeRecords ==
    { Opt("article", a # JsonNull \/ hasArticle, a)
      @@ ("namespaces" :> << [k |-> <<"c","e">>, v |-> URN_TMP_CE] >>)
      @@ Opt("strip_namespaces", s, TRUE)
      @@ Opt("xml_declaration", d # 0, IF d = 1 THEN <<>> ELSE T_XmlDecl)
      @@ Opt("xml_decl_suffix", ds, <<"\n">>)
      @@ Opt("doctype", t, T_Doctype)
      @@ Opt("doctype_suffix", ts, <<"\n"," ">>) :
        a \in NonObjects \cup {JsonObj(g) : g \in GoodArticles},
        hasArticle \in BOOLEAN, s \in BOOLEAN, d \in {0, 1, 2},
        ds \in BOOLEAN, t \in BOOLEAN, ts \in BOOLEAN }

SampleRecords == TreeRecords \cup EnvelopeRecords


\* ------------------------------------------------------------------------
\* Parse side: _extract_decl_doctype, generate_structured_json_from_xml and
\* the lxml parser it calls (src/t2 - Copy - Copy/convert_elsevier.py)
\* ------------------------------------------------------------------------

\* _extract_decl_doctype(xml_text).  The declaration regex ^<\?xml[^>]*\?> can
\* only end at the first ">" of the text (gt); the lazy DOCTYPE regex
\* <!DOCTYPE[\s\S]*?\]> starts at the first "<!DOCTYPE" (dtStart) and ends at
\* the first "]>" after it (dtClose).  str.replace(old, "", 1) with an empty
\* old leaves the text as it is, as the `if` in front of each call does.
ExtractDeclDoctype(xml_text) ==
    With(Find(xml_text, <<">">>, 6), LAMBDA gt :
    With(Find(xml_text, <<"<","!","D","O","C","T","Y","P","E">>, 1), LAMBDA dtStart :
    With(IF dtStart = 0 THEN 0 ELSE Find(xml_text, <<"]",">">>, dtStart + 9),
         LAMBDA dtClose :
    With(Find(xml_text, <<"<">>, dtClose + 2), LAMBDA next_tag_start :
        LET hasDecl  == /\ Slice(xml_text, 1, 5) = <<"<","?","x","m","l">>
                        /\ gt >= 7
                        /\ xml_text[gt - 1] = "?"
            hasDt    == dtStart # 0 /\ dtClose # 0
            xml_decl == IF hasDecl THEN Slice(xml_text, 1, gt) ELSE <<>>
            doctype  == IF hasDt THEN Slice(xml_text, dtStart, dtClose + 1)
                        ELSE <<>>
            xml_decl_suffix ==
                IF hasDecl /\ hasDt THEN Slice(xml_text, gt + 1, dtStart - 1)
                ELSE <<>>
            doctype_suffix ==
                IF ~hasDt THEN <<>>
                ELSE IF next_tag_start # 0
                     THEN Slice(xml_text, dtClose + 2, next_tag_start - 1)
                     ELSE From(xml_text, dtClose + 2)
        IN  [xml_decl        |-> xml_decl,
             doctype         |-> doctype,
             xml_decl_suffix |-> xml_decl_suffix,
             doctype_suffix  |-> doctype_suffix,
             parse_text      |->
                 ReplaceFirst(
                     ReplaceFirst(
                         ReplaceFirst(
                             ReplaceFirst(xml_text, xml_decl, <<>>),
                             doctype, <<>>),
                         xml_decl_suffix, <<>>),
                     doctype_suffix, <<>>)] ))))

\* regex classes [A-Za-z_] and [\w.-]
IsNameStart(c) == IsWord(c) /\ ~IsDigit(c)

IsPrefixChar(c) == IsWord(c) \/ c \in {".", "-"}

\* the prefix the regex of line 334 captures at position i of text, or <<>>:
\* (?:(?<=<)|(?<=</)|(?<=\s))([A-Za-z_][\w.-]*):[A-Za-z_]
PrefixAt(text, i) ==
    LET e == SkipWhile(text, i + 1, IsPrefixChar)
    IN  IF /\ i > 1
           /\ \/ text[i - 1] = "<"
              \/ IsSpace(text[i - 1])
              \/ (i > 2 /\ text[i - 1] = "/" /\ text[i - 2] = "<")
           /\ IsNameStart(text[i])
           /\ e + 1 <= Len(text)
           /\ text[e] = ":"
           /\ IsNameStart(text[e + 1])
        THEN Slice(text, i, e - 1)
        ELSE <<>>

\* lines 333-337: the prefixes found in the text, xml left out
ScanPrefixes(text) ==
    { PrefixAt(text, i) : i \in 1..Len(text) } \ { <<>>, <<"x","m","l">> }

\* the code point order of the characters a prefix is made of
CharOrder == <<"-", ".">> \o DigitChars \o UpperChars \o <<"_">> \o LowerChars

Ord(c) == CHOOSE k \in 1..Len(CharOrder) : CharOrder[k] = c

\* a < b for two strings, as sorted() compares them
RECURSIVE StrLess(_, _)
StrLess(a, b) ==
    IF b = <<>> THEN FALSE
    ELSE IF a = <<>> THEN TRUE
    ELSE IF Head(a) = Head(b) THEN StrLess(Tail(a), Tail(b))
    ELSE Ord(Head(a)) < Ord(Head(b))

\* sorted(prefixes)
RECURSIVE Sorted(_)
Sorted(set) ==
    IF set = {} THEN <<>>
    ELSE LET least == CHOOSE a \in set : \A b \in set \ {a} : StrLess(a, b)
         IN  <<least>> \o Sorted(set \ {least})

\* f"urn:tmp:{p}"
UrnTmp(p) == <<"u","r","n",":","t","m","p",":">> \o p

\* line 340: "".join(f' xmlns:{p}="urn:tmp:{p}"' for p in prefix_list)
RECURSIVE NsAttrs(_)
NsAttrs(prefix_list) ==
    IF prefix_list = <<>> THEN <<>>
    ELSE <<" ","x","m","l","n","s",":">> \o Head(prefix_list) \o <<"=","\"">>
         \o UrnTmp(Head(prefix_list)) \o <<"\"">> \o NsAttrs(Tail(prefix_list))

\* lines 342-344: the declarations spliced into the first "<article" that is
\* followed by white space and then into the first "<article>"
InjectNsAttrs(parse_text, ns_attrs) ==
    LET art  == <<"<","a","r","t","i","c","l","e">>
        hits == { i \in 1..Len(parse_text) :
                    /\ Slice(parse_text, i, i + 7) = art
                    /\ i + 8 <= Len(parse_text)
                    /\ IsSpace(parse_text[i + 8]) }
        i1   == CHOOSE i \in hits : \A j \in hits : i <= j
    IN  IF ~Contains(parse_text, art) THEN parse_text
        ELSE ReplaceFirst(IF hits = {} THEN parse_text
                          ELSE Slice(parse_text, 1, i1 + 7) \o ns_attrs
                               \o From(parse_text, i1 + 8),
                          art \o <<">">>, art \o ns_attrs \o <<">">>)

\* ---- etree.fromstring(parse_text, parser): the lxml parser --------------
\* The parser is configured with remove_comments=False, so comments are nodes.
\* The documents considered hold elements, attributes, comments, character
\* data and the five predefined entity references; a CDATA section, a
\* processing instruction or a general entity reference is rejected here.

\* a result with the position where reading goes on
At(v, pos) == [err |-> "", val |-> v, pos |-> pos]

Bad == [err |-> "XMLSyntaxError", val |-> <<>>, pos |-> 0]

\* XML Name characters
IsXmlNameStart(c) == IsNameStart(c) \/ c = ":"

IsXmlNameChar(c) == IsWord(c) \/ c \in {".", "-", ":"}

\* the character a predefined entity reference stands for, or <<>>
PredefinedEntity(nm) ==
    CASE nm = <<"a","m","p">>     -> <<"&">>
      [] nm = <<"l","t">>         -> <<"<">>
      [] nm = <<"g","t">>         -> <<">">>
      [] nm = <<"q","u","o","t">> -> <<"\"">>
      [] nm = <<"a","p","o","s">> -> <<"'">>
      [] OTHER                    -> <<>>

\* character data or an attribute value with its references replaced; in an
\* attribute value a literal tab or line break becomes a space
RECURSIVE Unescape(_, _)
Unescape(s, isAttr) ==
    IF s = <<>> THEN Ok(<<>>)
    ELSE IF Head(s) = "&"
    THEN With(Find(s, <<";">>, 2), LAMBDA semi :
         With(PredefinedEntity(Slice(s, 2, semi - 1)), LAMBDA ch :
             IF semi = 0 \/ ch = <<>> THEN Raise("XMLSyntaxError")
             ELSE With(Unescape(From(s, semi + 1), isAttr), LAMBDA rest :
                      IF rest.err # "" THEN rest ELSE Ok(ch \o rest.val))))
    ELSE With(Unescape(Tail(s), isAttr), LAMBDA rest :
             IF rest.err # "" THEN rest
             ELSE IF isAttr /\ Head(s) \in {"\t", "\n", "\r"}
                  THEN Ok(<<" ">> \o rest.val)
                  ELSE Ok(<<Head(s)>> \o rest.val))

\* the character data from p up to the next "<" (or the end of the text)
TextChunk(s, p) ==
    With(Find(s, <<"<">>, p), LAMBDA lt :
    With(IF lt = 0 THEN Len(s) + 1 ELSE lt, LAMBDA end :
    With(Unescape(Slice(s, p, end - 1), FALSE), LAMBDA t :
        IF t.err # "" THEN Bad ELSE At(t.val, end))))

\* .text / .tail of lxml: None when there is no character data
NoneIfEmpty(t) == IF t = <<>> THEN None ELSE t

\* the attributes of a start tag, read from p (just after the tag name) up to
\* its ">" or "/>" (pos); names as written, values unescaped.  q is where the
\* next name starts, e where it ends, eq the "=", open and close the quotes.
RECURSIVE ParseAttrs(_, _, _)
ParseAttrs(s, p, acc) ==
    With(SkipWhile(s, p, IsSpace), LAMBDA q :
        IF q > Len(s) THEN Bad
        ELSE IF s[q] = ">" THEN At(acc, q)
        ELSE IF s[q] = "/"
             THEN (IF q + 1 <= Len(s) /\ s[q + 1] = ">" THEN At(acc, q) ELSE Bad)
        ELSE IF q = p \/ ~IsXmlNameStart(s[q]) THEN Bad
        ELSE
        With(SkipWhile(s, q, IsXmlNameChar), LAMBDA e :
        With(SkipWhile(s, e, IsSpace), LAMBDA eq :
            IF eq > Len(s) \/ s[eq] # "=" THEN Bad
            ELSE
            With(SkipWhile(s, eq + 1, IsSpace), LAMBDA open :
                IF open > Len(s) \/ s[open] \notin {"\"", "'"} THEN Bad
                ELSE
                With(Find(s, <<s[open]>>, open + 1), LAMBDA close :
                With(Unescape(Slice(s, open + 1, close - 1), TRUE), LAMBDA v :
                    IF close = 0 \/ v.err # "" THEN Bad
                    ELSE IF Contains(Slice(s, open + 1, close - 1), <<"<">>)
                         THEN Bad
                    ELSE IF Slice(s, q, e - 1) \in Keys(acc) THEN Bad
                    ELSE ParseAttrs(s, close + 1,
                             Append(acc, [k |-> Slice(s, q, e - 1),
                                          v |-> v.val]))))))))

\* an attribute that declares a namespace
IsNsDecl(a) ==
    a.k = <<"x","m","l","n","s">> \/ Slice(a.k, 1, 6) = <<"x","m","l","n","s",":">>

\* the nsmap items an element's own declarations give
NsDeclItems(attrs) ==
    LET decls == SelectSeq(attrs, IsNsDecl)
    IN  [i \in 1..Len(decls) |->
            [k |-> IF decls[i].k = <<"x","m","l","n","s">> THEN None
                   ELSE From(decls[i].k, 7),
             v |-> decls[i].v]]

\* the declarations in scope below an element: its own over the inherited
Overlay(scope, items) ==
    [key \in DOMAIN scope \cup Keys(items) |->
        IF key \in Keys(items) THEN AsMap(items)[key] ELSE scope[key]]

\* the name lxml gives a tag or attribute written as qname with scope in
\* force: {uri}local, or the error of an undeclared prefix
Resolve(qname, scope, isAttr) ==
    IF ~HasColon(qname)
    THEN (IF ~isAttr /\ None \in DOMAIN scope THEN Ok(Clark(scope[None], qname))
          ELSE Ok(qname))
    ELSE IF PrefixOf(qname) = <<>> \/ LocalOf(qname) = <<>>
            \/ HasColon(LocalOf(qname))
         THEN Raise("XMLSyntaxError")
    ELSE IF PrefixOf(qname) = <<"x","m","l">> THEN Ok(Clark(XML_NS, LocalOf(qname)))
    ELSE IF PrefixOf(qname) \notin DOMAIN scope THEN Raise("XMLSyntaxError")
    ELSE Ok(Clark(scope[PrefixOf(qname)], LocalOf(qname)))

\* the attrib of an element: the attributes that are not declarations, names
\* resolved
RECURSIVE ResolveAttrs(_, _, _)
ResolveAttrs(attrs, scope, acc) ==
    IF attrs = <<>> THEN Ok(acc)
    ELSE IF IsNsDecl(Head(attrs)) THEN ResolveAttrs(Tail(attrs), scope, acc)
    ELSE With(Resolve(Head(attrs).k, scope, TRUE), LAMBDA nm :
             IF nm.err # "" THEN nm
             ELSE IF nm.val \in Keys(acc) THEN Raise("XMLSyntaxError")
             ELSE ResolveAttrs(Tail(attrs), scope,
                               Append(acc, [k |-> nm.val, v |-> Head(attrs).v])))

\* an element read from its "<" at p (its name ends before e); the nodes
\* (comments and elements, each with its tail) read from a "<" at p up to an
\* end tag or the end of the text
RECURSIVE ParseElement(_, _, _)
RECURSIVE ParseNodes(_, _, _, _)
ParseElement(s, p, scope) ==
    IF p + 1 > Len(s) \/ ~IsXmlNameStart(s[p + 1]) THEN Bad
    ELSE
    With(SkipWhile(s, p + 1, IsXmlNameChar), LAMBDA e :
    With(ParseAttrs(s, e, <<>>), LAMBDA a :
        IF a.err # "" THEN Bad
        ELSE
        With(NsDeclItems(a.val), LAMBDA decls :
        With(Overlay(scope, decls), LAMBDA inner :
        With(Resolve(Slice(s, p + 1, e - 1), inner, FALSE), LAMBDA tag :
        With(ResolveAttrs(a.val, inner, <<>>), LAMBDA attrib :
            IF <<"x","m","l","n","s">> \in Keys(decls) THEN Bad
            ELSE IF tag.err # "" \/ attrib.err # "" THEN Bad
            ELSE IF s[a.pos] = "/"
                 THEN At(Element(tag.val, decls, attrib.val, None, <<>>, None),
                         a.pos + 2)
            ELSE
            With(TextChunk(s, a.pos + 1), LAMBDA text :
                IF text.err # "" THEN Bad
                ELSE
                With(ParseNodes(s, text.pos, inner, <<>>), LAMBDA nodes :
                    IF nodes.err # "" THEN Bad
                    ELSE IF Slice(s, nodes.pos, nodes.pos + e - p)
                            # <<"<","/">> \o Slice(s, p + 1, e - 1)
                         THEN Bad
                    ELSE
                    With(SkipWhile(s, nodes.pos + e - p + 1, IsSpace), LAMBDA gt :
                        IF gt > Len(s) \/ s[gt] # ">" THEN Bad
                        ELSE At(Element(tag.val, decls, attrib.val,
                                        NoneIfEmpty(text.val), nodes.val, None),
                                gt + 1))))))))))

ParseNodes(s, p, scope, acc) ==
    IF p > Len(s) THEN At(acc, p)
    ELSE IF Slice(s, p, p + 1) = <<"<","/">> THEN At(acc, p)
    ELSE IF Slice(s, p, p + 3) = <<"<","!","-","-">>
    THEN With(Find(s, <<"-","-",">">>, p + 4), LAMBDA cEnd :
             IF cEnd = 0 \/ Contains(Slice(s, p + 4, cEnd - 1), <<"-","-">>)
             THEN Bad
             ELSE With(TextChunk(s, cEnd + 3), LAMBDA tail :
                      IF tail.err # "" THEN Bad
                      ELSE ParseNodes(s, tail.pos, scope,
                               Append(acc, CommentNode(Slice(s, p + 4, cEnd - 1),
                                                       NoneIfEmpty(tail.val))))))
    ELSE With(ParseElement(s, p, scope), LAMBDA el :
             IF el.err # "" THEN Bad
             ELSE With(TextChunk(s, el.pos), LAMBDA tail :
                      IF tail.err # "" THEN Bad
                      ELSE ParseNodes(s, tail.pos, scope,
                               Append(acc, [el.val EXCEPT
                                               !.tail = NoneIfEmpty(tail.val)]))))

\* all characters of t are white space
IsBlank(t) == \A i \in 1..Len(t) : IsSpace(t[i])

\* the position after a DOCTYPE declaration without internal subset that
\* opens the document (1 without one): with load_dtd=False the parser reads
\* the declaration and loads nothing
AfterDoctypeDecl(text) ==
    With(SkipWhile(text, 1, IsSpace), LAMBDA p :
    With(Find(text, <<">">>, p), LAMBDA gt :
        IF /\ Slice(text, p, p + 8) = <<"<","!","D","O","C","T","Y","P","E">>
           /\ gt # 0
           /\ ~Contains(Slice(text, p, gt), <<"[">>)
        THEN gt + 1 ELSE 1))

\* etree.fromstring(text, parser): the root element, or XMLSyntaxError.  The
\* comments, white space and a DOCTYPE declaration outside the root element
\* are not part of the root: its tail is None.
FromString(text) ==
    With(TextChunk(text, AfterDoctypeDecl(text)), LAMBDA lead :
        IF lead.err # "" \/ ~IsBlank(lead.val) THEN Raise("XMLSyntaxError")
        ELSE
        With(ParseNodes(text, lead.pos, <<>>, <<>>), LAMBDA nodes :
            IF nodes.err # "" \/ nodes.pos <= Len(text)
            THEN Raise("XMLSyntaxError")
            ELSE
            With(SelectSeq(nodes.val, LAMBDA n : n.kind = "element"), LAMBDA roots :
                IF Len(roots) # 1 THEN Raise("XMLSyntaxError")
                ELSE IF \E i \in 1..Len(nodes.val) :
                            /\ nodes.val[i].tail # None
                            /\ ~IsBlank(nodes.val[i].tail)
                     THEN Raise("XMLSyntaxError")
                ELSE Ok([roots[1] EXCEPT !.tail = None]))))

\* ---- _build_structured_node and generate_structured_json_from_xml -------

\* attrs[qname_to_prefixed(key)] = value for each item of node.attrib
RECURSIVE StructuredAttrs(_, _, _)
StructuredAttrs(attrib, ns_to_prefix, acc) ==
    IF attrib = <<>> THEN acc
    ELSE StructuredAttrs(Tail(attrib), ns_to_prefix,
             SetItem(acc, QnameToPrefixed(Head(attrib).k, ns_to_prefix).val,
                     Head(attrib).v))

\* _build_structured_node(node, ns_to_prefix): the JSON object of a node
RECURSIVE BuildStructuredNode(_, _)
BuildStructuredNode(node, ns_to_prefix) ==
    IF node.kind = "comment"
    THEN ("type" :> "comment") @@ ("text" :> TextOrEmpty(node.text))
         @@ Opt("tail", node.tail # None, node.tail)
    ELSE ("tag" :> QnameToPrefixed(node.tag, ns_to_prefix).val)
         @@ Opt("attrs", node.attrib # <<>>,
                StructuredAttrs(node.attrib, ns_to_prefix, <<>>))
         @@ Opt("text", node.text # None, node.text)
         @@ Opt("children", node.children # <<>>,
                [i \in 1..Len(node.children) |->
                    BuildStructuredNode(node.children[i], ns_to_prefix)])
         @@ Opt("tail", node.tail # None, node.tail)

\* line 355-356: {f"urn:tmp:{p}": p for p in prefix_list} and the xml entry
NsToPrefix(prefix_list) ==
    [uri \in {UrnTmp(prefix_list[i]) : i \in 1..Len(prefix_list)} \cup {XML_NS} |->
        IF uri = XML_NS THEN <<"x","m","l">> ELSE From(uri, 9)]

\* generate_structured_json_from_xml: the object written to json_path for the
\* text read from xml_path, or the parser's exception
GenerateStructuredJsonFromXml(text) ==
    With(ExtractDeclDoctype(text), LAMBDA d :
    With(Sorted(ScanPrefixes(d.parse_text)), LAMBDA prefix_list :
    With(FromString(InjectNsAttrs(d.parse_text, NsAttrs(prefix_list))), LAMBDA root :
        IF root.err # "" THEN root
        ELSE Ok( ("xml_declaration" :> d.xml_decl)
                 @@ ("doctype" :> d.doctype)
                 @@ ("xml_decl_suffix" :> d.xml_decl_suffix)
                 @@ ("doctype_suffix" :> d.doctype_suffix)
                 @@ ("use_namespaces" :> TRUE)
                 @@ ("strip_namespaces" :> TRUE)
                 @@ ("namespaces" :>
                        [i \in 1..Len(prefix_list) |->
                            [k |-> prefix_list[i], v |-> UrnTmp(prefix_list[i])]])
                 @@ ("article" :>
                        JsonObj(BuildStructuredNode(root.val,
                                                    NsToPrefix(prefix_list)))) ))))

\* ------------------------------------------------------------------------
\* XML documents given to generate_structured_json_from_xml
\* ------------------------------------------------------------------------

\* what a document holds after the paragraph that all of them have
SampleExtras ==
    { <<>>,
      \* an empty element written as a start tag and an end tag: <ce:bold></ce:bold>
      <<"<","c","e",":","b","o","l","d",">","<","/","c","e",":","b","o","l",
        "d",">">>,
      \* an empty element written as one tag: <ce:br/>
      <<"<","c","e",":","b","r","/",">">>,
      \* an attribute value in single quotes: <ce:link xml:lang='en'/>
      <<"<","c","e",":","l","i","n","k"," ","x","m","l",":","l","a","n","g",
        "=","'","e","n","'","/",">">>,
      \* an escaped ampersand: <b>A &amp; B</b>
      <<"<","b",">","A"," ","&","a","m","p",";"," ","B","<","/","b",">">>,
      \* escaped quotes in character data: <b>&quot;q&quot;</b>
      <<"<","b",">","&","q","u","o","t",";","q","&","q","u","o","t",";","<",
        "/","b",">">>,
      \* white space inside a start tag: <b >x</b>
      <<"<","b"," ",">","x","<","/","b",">">> }

\* root elements, as start tag and end tag: <article>, <article id="a1">,
\* <article xmlns:ce="http://www.elsevier.com/xml/common/dtd">, <doc>
SampleRoots ==
    { [start |-> <<"<","a","r","t","i","c","l","e",">">>,
       end   |-> <<"<","/","a","r","t","i","c","l","e",">">>],
      [start |-> <<"<","a","r","t","i","c","l","e"," ","i","d","=","\"","a",
                   "1","\"",">">>,
       end   |-> <<"<","/","a","r","t","i","c","l","e",">">>],
      [start |-> <<"<","a","r","t","i","c","l","e"," ","x","m","l","n","s",
                   ":","c","e","=","\"","h","t","t","p",":","/","/","w","w",
                   "w",".","e","l","s","e","v","i","e","r",".","c","o","m",
                   "/","x","m","l","/","c","o","m","m","o","n","/","d","t",
                   "d","\"",">">>,
       end   |-> <<"<","/","a","r","t","i","c","l","e",">">>],
      [start |-> <<"<","d","o","c",">">>,
       end   |-> <<"<","/","d","o","c",">">>] }

\* well-formed documents with an XML declaration, a DOCTYPE with an internal
\* entity subset, namespaced elements inside an unnamespaced root, a comment
\* and tail text: all hold <ce:para id="p1">Hi<!--c-->tail</ce:para>; the
\* DOCTYPE is followed by a line break or by a line with the comment
\* <!--pre-->, the root's end tag by nothing or by a line break
SampleXml ==
    { T_XmlDecl \o ds \o T_Doctype \o ts \o r.start
      \o <<"<","c","e",":","p","a","r","a"," ","i","d","=","\"","p","1","\"",
           ">","H","i","<","!","-","-","c","-","-",">","t","a","i","l","<",
           "/","c","e",":","p","a","r","a",">">>
      \o x \o r.end \o trailer :
        ds \in { <<>>, <<"\n">> },
        ts \in { <<"\n">>, <<"\n","<","!","-","-","p","r","e","-","-",">","\n">> },
        r \in SampleRoots,
        x \in SampleExtras,
        trailer \in { <<>>, <<"\n">> } }

\* documents whose DOCTYPE has no internal subset,
\* <!DOCTYPE article SYSTEM "art.dtd">, with and without an XML declaration;
\* the root holds the text Hi, or a]>b
SampleXmlNoSubset ==
    { decl
      \o <<"<","!","D","O","C","T","Y","P","E"," ","a","r","t","i","c","l",
           "e"," ","S","Y","S","T","E","M"," ","\"","a","r","t",".","d","t",
           "d","\"",">","\n","<","a","r","t","i","c","l","e",">">>
      \o body \o <<"<","/","a","r","t","i","c","l","e",">">> :
        decl \in { <<>>, T_XmlDecl \o <<"\n">> },
        body \in { <<"H","i">>, <<"a","]",">","b">> } }

\* ------------------------------------------------------------------------
\* State
\* ------------------------------------------------------------------------

VARIABLES
    pc,          \* the position of the running operation
    \* heuristic path (convert)
    doc,         \* doc.paragraphs: the (text, style) pairs of the DOCX
    paragraphs,  \* convert: the stripped, non-blank (text, style) pairs
    li,          \* index of the next item of the running for loop
    fig_count,   \* _build_floats: fig_count
    floats,      \* the ce:figure children of ce:floats, in order
    title,       \* the text of ce:title in head
    sec,         \* _build_body: sec, as an index into sections (0 is None)
    sec_idx,     \* _build_body: sec_idx
    para_idx,    \* _build_body: para_idx
    sections,    \* the ce:section children of ce:sections, in order
    \* namespace tag codec
    name,         \* the tag or attribute name given to Expand
    kind,         \* "tag" (_expand_tag) or "attr" (_expand_attr)
    nsmap_lookup, \* the prefix -> URI map in force
    expanded,     \* what Expand returned or raised
    contracted,   \* what qname_to_prefixed returned for the expanded name
    \* lossless path
    xml_text,     \* generate_structured_json_from_xml: the text of xml_path
    data,         \* the structured record (the JSON object read from data_path)
    xml_str,      \* _convert_from_structured_data: xml_str when it returns
    result,       \* what _convert_from_structured_data returned or raised
    \* validate (src/t2/convert_elsevier.py)
    files,        \* the schema directory: art570.dtd, common170.ent, the
                  \* MathML module, and the platform's line separator
    temp_dir,     \* the scratch directory of the recovery path (None: absent)
    xml_tree,     \* the tree given to validate
    lib,          \* what lxml answers: the two schema parses, the verdict on
                  \* the tree and the error log
    out,          \* the lines printed so far
    dtd_calls,    \* the files etree.DTD was called on, in order
    ret,          \* what validate returned or raised
    \* batch driver (__main__, choice 'all')
    docx_files,   \* sorted names of the DOCX files of the folder
    folder,       \* the other files of the folder: path -> content
    bi,           \* index of the document the loop is at
    printed,      \* the lines the driver printed
    exit,         \* how the program ended: exit status or uncaught exception
    \* metadata-driven convert (src/t2/convert_elsevier.py)
    docx,         \* the file at docx_path: doc.paragraphs, or None if absent
    meta_xml,     \* the file at meta_xml_path: its element tree, "no path"
                  \* (meta_xml_path is None) or "no file"
    meta,         \* convert: meta, the dict _load_meta returned
    root,         \* the article element under construction: its item-info,
                  \* head and body children
    current_section, \* convert: current_section, as an index into the
                  \* sections of root (0 is None)
    pi            \* index of the paragraph the body loop is at

heurVars ==
    <<doc, paragraphs, li, fig_count, floats, title, sec, sec_idx, para_idx,
      sections>>

codecVars == <<name, kind, nsmap_lookup, expanded, contracted>>

losslessVars == <<xml_text, data, xml_str, result>>

valVars == <<files, temp_dir, xml_tree, lib, out, dtd_calls, ret>>

batchVars == <<docx_files, folder, bi, printed, exit>>

convVars == <<docx, meta_xml, meta, root, current_section, pi>>

vars ==
    <<pc, heurVars, codecVars, losslessVars, valVars, batchVars, convVars>>

\* the lossless path's variables when no record is being converted
LosslessIdle ==
    /\ xml_text = None
    /\ data = <<>>
    /\ xml_str = None
    /\ result = Pending

\* the metadata-driven convert's variables when it is not running
ConvIdle ==
    /\ docx = None
    /\ meta_xml = "no path"
    /\ meta = <<>>
    /\ root = <<>>
    /\ current_section = 0
    /\ pi = 1

\* the batch driver's variables when it is not running
BatchIdle ==
    /\ docx_files = <<>>
    /\ folder = <<>>
    /\ bi = 1
    /\ printed = <<>>
    /\ exit = Pending

\* validate's variables when no validation is running
ValIdle ==
    /\ files = <<>>
    /\ temp_dir = None
    /\ xml_tree = <<>>
    /\ lib = <<>>
    /\ out = <<>>
    /\ dtd_calls = <<>>
    /\ ret = Pending

\* the codec's variables when no name is being expanded
CodecIdle ==
    /\ name = <<>>
    /\ kind = "tag"
    /\ nsmap_lookup = <<>>
    /\ expanded = Pending
    /\ contracted = Pending

\* the heuristic path's variables before convert() has run
HeurIdle ==
    /\ paragraphs = <<>>
    /\ li = 1
    /\ fig_count = 0
    /\ floats = <<>>
    /\ title = None
    /\ sec = 0
    /\ sec_idx = 10
    /\ para_idx = 10
    /\ sections = <<>>

InitHeur ==
    /\ pc = "extract"
    /\ doc \in Docs
    /\ HeurIdle
    /\ CodecIdle
    /\ LosslessIdle
    /\ ValIdle
    /\ BatchIdle
    /\ ConvIdle

\* the loop over a list of n items that starts at pc value loop is entered
\* (or skipped when the list is empty, going to after)
EnterLoop(n, loop, after) ==
    /\ li' = 1
    /\ pc' = IF n > 0 THEN loop ELSE after

\* one more item of a loop over n items was handled
StepLoop(n, after) ==
    /\ li' = IF li < n THEN li + 1 ELSE 1
    /\ pc' = IF li < n THEN pc ELSE after

\* convert, lines 32-40: read the DOCX into (text, style) pairs
Extract ==
    /\ pc = "extract"
    /\ paragraphs' = ExtractParagraphs(doc)
    /\ EnterLoop(Len(paragraphs'), "floats", "head")
    /\ UNCHANGED <<doc, fig_count, floats, title, sec, sec_idx, para_idx, sections, codecVars, losslessVars, valVars, batchVars, convVars>>

\* _build_floats: one iteration of `for line in lines`
BuildFloatsStep ==
    /\ pc = "floats"
    /\ LET m == MatchCaption(paragraphs[li].text)
       IN  IF m.matched
           THEN /\ fig_count' = fig_count + 1
                /\ floats' = Append(floats, Figure(fig_count', m))
           ELSE UNCHANGED <<fig_count, floats>>
    /\ StepLoop(Len(paragraphs), "head")
    /\ UNCHANGED <<doc, paragraphs, title, sec, sec_idx, para_idx, sections, codecVars, losslessVars, valVars, batchVars, convVars>>

\* _build_head: ce:title from the first line
BuildHead ==
    /\ pc = "head"
    /\ title' = IF paragraphs # <<>> THEN paragraphs[1].text
                ELSE <<"A","r","t","i","c","l","e"," ","T","i","t","l","e">>
    /\ EnterLoop(Len(paragraphs), "body", "done")
    /\ UNCHANGED <<doc, paragraphs, fig_count, floats, sec, sec_idx, para_idx, sections, codecVars, losslessVars, valVars, batchVars, convVars>>

\* _build_body: one iteration of `for text, style in paragraphs`
BuildBodyStep ==
    /\ pc = "body"
    /\ LET text  == paragraphs[li].text
           style == paragraphs[li].style
       IN  IF text = paragraphs[1].text
           THEN \* Skip Title: continue
                UNCHANGED <<sec, sec_idx, para_idx, sections>>
           ELSE IF IsHeader(text, style)
           THEN /\ sections' = Append(sections, HeaderSection(sec_idx, text))
                /\ sec' = Len(sections) + 1
                /\ sec_idx' = sec_idx + 10
                /\ UNCHANGED para_idx
           ELSE LET opened == IF sec = 0
                              THEN Append(sections, DefaultSection(sec_idx))
                              ELSE sections
                    cur    == IF sec = 0 THEN Len(sections) + 1 ELSE sec
                    p      == [id |-> ParaId(para_idx), text |-> text]
                IN  /\ sections' = [opened EXCEPT ![cur].paras = Append(@, p)]
                    /\ sec' = cur
                    /\ sec_idx' = IF sec = 0 THEN sec_idx + 10 ELSE sec_idx
                    /\ para_idx' = para_idx + 10
    /\ StepLoop(Len(paragraphs), "done")
    /\ UNCHANGED <<doc, paragraphs, fig_count, floats, title, codecVars, losslessVars, valVars, batchVars, convVars>>

NextHeur ==
    \/ Extract
    \/ BuildFloatsStep
    \/ BuildHead
    \/ BuildBodyStep

SpecHeur == InitHeur /\ [][NextHeur]_vars

\* ------------------------------------------------------------------------
\* Claims about the heuristic path
\* ------------------------------------------------------------------------

\* the para children of all sections, as (section, position) pairs
ParaPlaces ==
    { <<k, j>> \in (1..Len(sections)) \X (1..Len(paragraphs)) : j <= Len(sections[k].paras) }

\* C2 (as claimed): once the tree is built, no paragraph that matches the
\* figure-caption pattern is a para child of a body section, and the scenario
\* sequence yields exactly one section (s0010, "1. Introduction") holding
\* exactly one paragraph (p0010, "Some text.") and exactly one figure (f0005,
\* label "Fig. 2", caption "Sample image", locator gr2).
C2_CaptionsOnlyInFloats ==
    pc = "done" =>
        /\ \A pl \in ParaPlaces :
               ~MatchCaption(sections[pl[1]].paras[pl[2]].text).matched
        /\ paragraphs = ScenarioParagraphs =>
               /\ Len(sections) = 1
               /\ sections[1].id = <<"s","0","0","1","0">>
               /\ sections[1].title = T_Intro
               /\ sections[1].paras =
                      << [id |-> <<"p","0","0","1","0">>, text |-> T_SomeText] >>
               /\ Len(floats) = 1
               /\ floats[1].id = <<"f","0","0","0","5">>
               /\ floats[1].label = <<"F","i","g","."," ","2">>
               /\ floats[1].caption =
                      <<"S","a","m","p","l","e"," ","i","m","a","g","e">>
               /\ floats[1].locator = <<"g","r","2">>

\* C9 (as claimed): the k-th section created has id s%04d of 10*k and its
\* section-title has id st%04d of the same number, the synthetic section
\* included.
C9_SectionIdPolicy ==
    \A k \in 1..Len(sections) :
        /\ sections[k].id = <<"s">> \o Fmt04d(10 * k)
        /\ sections[k].st_id = <<"s","t">> \o Fmt04d(10 * k)

\* the lines of the document that the caption pattern matches, in source order
CaptionLines == SelectSeq(paragraphs, LAMBDA p : MatchCaption(p.text).matched)

\* the run of digits that follows the Fig./Figure keyword of a caption line
ParsedNumber(line) ==
    LET key == IF LowerChar(line[4]) = "." THEN 4 ELSE 6
        p   == SkipWhile(line, key + 1, IsSpace)
    IN  Slice(line, p, SkipWhile(line, p, IsDigit) - 1)

\* C10: the N-th caption encountered in source order gets the ids f, ca and sp
\* followed by 5*N zero-padded to 4 digits, whatever number its text carries,
\* and the locator gr followed by the number parsed from its text; captions
\* "Fig. 7" then "Fig. 3" get f0005 / gr7 and f0010 / gr3.
C10_FigureIdsByEncounter ==
    /\ Len(floats) <= Len(CaptionLines)
    /\ pc \in {"head", "body", "done"} => Len(floats) = Len(CaptionLines)
    /\ \A n \in 1..Len(floats) :
           /\ floats[n].id = <<"f">> \o Fmt04d(5 * n)
           /\ floats[n].ca_id = <<"c","a">> \o Fmt04d(5 * n)
           /\ floats[n].sp_id = <<"s","p">> \o Fmt04d(5 * n)
           /\ floats[n].locator = <<"g","r">> \o ParsedNumber(CaptionLines[n].text)
    /\ ( /\ pc = "done"
         /\ Len(CaptionLines) = 2
         /\ CaptionLines[1].text = <<"F","i","g","."," ","7">>
         /\ CaptionLines[2].text = <<"F","i","g","."," ","3">> )
       => /\ floats[1].id = <<"f","0","0","0","5">>
          /\ floats[1].locator = <<"g","r","7">>
          /\ floats[2].id = <<"f","0","0","1","0">>
          /\ floats[2].locator = <<"g","r","3">>

\* C10 witness: two captions met out of numeric order, "Fig. 7" then "Fig. 3",
\* have been turned into figures
C10_Witness ==
    /\ pc = "done"
    /\ Len(floats) = 2
    /\ floats[1].label = <<"F","i","g","."," ","7">>
    /\ floats[2].label = <<"F","i","g","."," ","3">>


\* the number of para elements created before the first para of section k
RECURSIVE ParasBefore(_)
ParasBefore(k) ==
    IF k <= 1 THEN 0 ELSE ParasBefore(k - 1) + Len(sections[k - 1].paras)

\* C11: the j-th para element in document order, counted across all sections,
\* has the id p%04d of 10*j; the count goes on where the previous section
\* stopped, and the counter stands at 10 times the number of paras made plus 10.
C11_ParagraphIdsGlobal ==
    /\ \A pl \in ParaPlaces :
           sections[pl[1]].paras[pl[2]].id =
               <<"p">> \o Fmt04d(10 * (ParasBefore(pl[1]) + pl[2]))
    /\ para_idx = 10 * (ParasBefore(Len(sections) + 1) + 1)

\* C11 witness: a later section holds a para whose number continues the count
\* of a para in an earlier section
C11_Witness ==
    /\ pc = "done"
    /\ \E k \in 2..Len(sections) :
           /\ sections[k].paras # <<>>
           /\ ParasBefore(k) > 0
           /\ sections[k].paras[1].id = <<"p","0","0","2","0">>

\* the elements of the built tree that carry an id attribute: sections,
\* section-titles, paras, figures, captions and simple-paras
IdSlots ==
    { <<"section", k, 0>> : k \in 1..Len(sections) }
        \cup { <<"section-title", k, 0>> :
                   k \in { i \in 1..Len(sections) : sections[i].st_id # None } }
        \cup { <<"para", pl[1], pl[2]>> : pl \in ParaPlaces }
        \cup { <<"figure", n, 0>> : n \in 1..Len(floats) }
        \cup { <<"caption", n, 0>> : n \in 1..Len(floats) }
        \cup { <<"simple-para", n, 0>> : n \in 1..Len(floats) }

\* the id attribute of one such element
IdAt(slot) ==
    CASE slot[1] = "section"       -> sections[slot[2]].id
      [] slot[1] = "section-title" -> sections[slot[2]].st_id
      [] slot[1] = "para"          -> sections[slot[2]].paras[slot[3]].id
      [] slot[1] = "figure"        -> floats[slot[2]].id
      [] slot[1] = "caption"       -> floats[slot[2]].ca_id
      [] slot[1] = "simple-para"   -> floats[slot[2]].sp_id

\* C12: at every point of the build, the id attribute values of the tree
\* (section, section-title, para, figure, caption, simple-para) are pairwise
\* distinct.
C12_IdsCollisionFree ==
    \A a \in IdSlots : \A b \in IdSlots : IdAt(a) = IdAt(b) => a = b

\* C12 witness: a finished tree with ids of all six kinds, two sections among
\* them
C12_Witness ==
    /\ pc = "done"
    /\ Len(sections) >= 2
    /\ \E k \in 1..Len(sections) : sections[k].st_id # None
    /\ ParaPlaces # {}
    /\ floats # <<>>

\* the section-titles and paras of the body in document order, as (kind, text)
RECURSIVE BodyItems(_)
BodyItems(k) ==
    IF k > Len(sections) THEN <<>>
    ELSE (IF sections[k].title # None
          THEN <<[kind |-> "header", text |-> sections[k].title]>> ELSE <<>>)
         \o [j \in 1..Len(sections[k].paras) |->
                [kind |-> "para", text |-> sections[k].paras[j].text]]
         \o BodyItems(k + 1)

\* what the header and body rules make of the paragraphs after the first
LaterItems ==
    [k \in 1..(Len(paragraphs) - 1) |->
        [kind |-> IF IsHeader(paragraphs[k + 1].text, paragraphs[k + 1].style)
                  THEN "header" ELSE "para",
         text |-> paragraphs[k + 1].text]]

\* an item that is no para made of a caption line
NotCaptionPara(item) == item.kind = "header" \/ ~MatchCaption(item.text).matched

\* C20 (as claimed): once the tree is built, the title is the text of the
\* first paragraph, and the body holds one section-title or para for every
\* later paragraph, in order and whatever its text, a repetition of the
\* title's text included (caption lines, which the caption rule takes, left
\* aside).
C20_TitleIsPositional ==
    (pc = "done" /\ paragraphs # <<>>) =>
        /\ title = paragraphs[1].text
        /\ SelectSeq(BodyItems(1), NotCaptionPara)
               = SelectSeq(LaterItems, NotCaptionPara)

\* a paragraph that is a section header in the words of the rule: its style
\* name starts with "heading" whatever the case, or its text begins with one
\* or more digits, a dot and a whitespace character
ClaimedHeader(p) ==
    \/ /\ Len(p.style) >= 7
       /\ Lower(Slice(p.style, 1, 7)) = <<"h","e","a","d","i","n","g">>
    \/ \E n \in 1..Len(p.text) :
           /\ \A k \in 1..n : IsDigit(p.text[k])
           /\ n + 2 <= Len(p.text)
           /\ p.text[n + 1] = "."
           /\ IsSpace(p.text[n + 2])

\* the number of para elements of a list of sections
RECURSIVE ParaCount(_)
ParaCount(secs) ==
    IF secs = <<>> THEN 0 ELSE Len(Head(secs).paras) + ParaCount(Tail(secs))

\* C21 (as claimed): handling a paragraph after the title opens a new section
\* titled with its text if and only if the paragraph is a section header (style
\* name starting with "heading", or leading digits, dot, whitespace); and a
\* header paragraph adds no para.
C21_HeaderRule ==
    [][ (pc = "body" /\ li > 1) =>
            /\ ClaimedHeader(paragraphs[li]) <=>
                   /\ Len(sections') = Len(sections) + 1
                   /\ sections'[Len(sections')].title = paragraphs[li].text
            /\ ClaimedHeader(paragraphs[li]) =>
                   ParaCount(sections') = ParaCount(sections) ]_vars
InitCodec ==
    /\ pc = "expand"
    /\ name \in SampleNames
    /\ kind \in {"tag", "attr"}
    /\ nsmap_lookup \in SampleMaps
    /\ expanded = Pending
    /\ contracted = Pending
    /\ doc = <<>>
    /\ HeurIdle
    /\ LosslessIdle
    /\ ValIdle
    /\ BatchIdle
    /\ ConvIdle

\* self._expand_tag(tag, nsmap_lookup), as _build_element calls it for a tag
ExpandTagCall ==
    /\ pc = "expand"
    /\ kind = "tag"
    /\ expanded' = ExpandTag(name, nsmap_lookup)
    /\ pc' = IF expanded'.err = "" THEN "contract" ELSE "raised"
    /\ UNCHANGED <<name, kind, nsmap_lookup, contracted, heurVars, losslessVars, valVars, batchVars, convVars>>

\* self._expand_attr(attr_name, nsmap_lookup), as _build_element calls it for
\* an attribute name
ExpandAttrCall ==
    /\ pc = "expand"
    /\ kind = "attr"
    /\ expanded' = ExpandAttr(name, nsmap_lookup)
    /\ pc' = IF expanded'.err = "" THEN "contract" ELSE "raised"
    /\ UNCHANGED <<name, kind, nsmap_lookup, contracted, heurVars, losslessVars, valVars, batchVars, convVars>>

\* qname_to_prefixed on the expanded name, with the inverse of the prefix map
ContractCall ==
    /\ pc = "contract"
    /\ \E inv \in InverseMaps(nsmap_lookup) :
           contracted' = QnameToPrefixed(expanded.val, inv)
    /\ pc' = "done"
    /\ UNCHANGED <<name, kind, nsmap_lookup, expanded, heurVars, losslessVars, valVars, batchVars, convVars>>

NextCodec ==
    \/ ExpandTagCall
    \/ ExpandAttrCall
    \/ ContractCall

SpecCodec == InitCodec /\ [][NextCodec]_vars

\* ------------------------------------------------------------------------
\* Claims about the namespace tag codec
\* ------------------------------------------------------------------------

\* the URIs of a prefix map are pairwise distinct
UniqueUris(m) == \A p, q \in DOMAIN m : m[p] = m[q] => p = q

\* name is prefix:local with a non-empty prefix
IsPrefixed(n) == HasColon(n) /\ PrefixOf(n) # <<>>

\* Expand has run on the name
Expanded == pc \in {"contract", "raised", "done"}

\* C3: Expand on a name prefix:local whose prefix is not in the prefix map and
\* is not the reserved prefix xml fails with UnknownPrefix, for tags and for
\* attribute names alike, and returns no value; a name without ":" is returned
\* unchanged.
C3_UnknownPrefixFails ==
    Expanded =>
        /\ ( /\ HasColon(name)
             /\ PrefixOf(name) \notin DOMAIN nsmap_lookup
             /\ PrefixOf(name) # <<"x","m","l">> )
           => expanded = Raise("UnknownPrefix") /\ pc = "raised"
        /\ ~HasColon(name) => expanded = Ok(name)

\* C3 witness: an attribute name with an undeclared prefix was expanded and
\* the call raised
C3_Witness ==
    /\ pc = "raised"
    /\ kind = "attr"
    /\ name = <<"z","z",":","x">>
    /\ <<"z","z">> \notin DOMAIN nsmap_lookup

C5_XmlPrefixReserved ==
    (Expanded /\ HasColon(name) /\ PrefixOf(name) = <<"x","m","l">>)
    => expanded = Ok(Clark(XML_NS, LocalOf(name)))


\* a structured record is on disk (convert), or an XML file is about to be
\* turned into one (generate)
InitLossless ==
    /\ \/ /\ pc = "convert"
          /\ xml_text = None
          /\ data \in SampleRecords
       \/ /\ pc = "generate"
          /\ xml_text \in SampleXml \cup SampleXmlNoSubset
          /\ data = <<>>
    /\ xml_str = None
    /\ result = Pending
    /\ doc = <<>>
    /\ HeurIdle
    /\ CodecIdle
    /\ ValIdle
    /\ BatchIdle
    /\ ConvIdle

\* generate_structured_json_from_xml(xml_path, json_path); the JSON file it
\* writes is the record convert() then loads
GenerateStructured ==
    /\ pc = "generate"
    /\ LET structured == GenerateStructuredJsonFromXml(xml_text)
       IN  IF structured.err = ""
           THEN /\ data' = structured.val
                /\ pc' = "convert"
                /\ UNCHANGED result
           ELSE /\ result' = structured
                /\ pc' = "parse_failed"
                /\ UNCHANGED data
    /\ UNCHANGED <<xml_text, xml_str, heurVars, codecVars, valVars, batchVars, convVars>>

\* convert(), lines 24-27, with _convert_from_structured_data(data)
Convert ==
    /\ pc = "convert"
    /\ result' = ConvertFromStructuredData(data)
    /\ xml_str' = IF RenderBody(data).err = "" THEN RenderBody(data).val ELSE None
    /\ pc' = IF result'.err = "" THEN "done" ELSE "raised"
    /\ UNCHANGED <<xml_text, data, heurVars, codecVars, valVars, batchVars, convVars>>

NextLossless ==
    \/ GenerateStructured
    \/ Convert

SpecLossless == InitLossless /\ [][NextLossless]_vars


\* ------------------------------------------------------------------------
\* Claims about the lossless path
\* ------------------------------------------------------------------------

\* _convert_from_structured_data has returned or raised
Converted == pc \in {"done", "raised"}

\* the record's "article" value is an object
ArticleIsObject == "article" \in DOMAIN data /\ data.article.j = "obj"

\* C6: whenever the record's article value is not an object (absent, a
\* template string, a list, a number, null) the lossless path fails with
\* InvalidStructuredData and produces no XML text.
C6_NonObjectArticleRejected ==
    (Converted /\ ~ArticleIsObject)
    => /\ pc = "raised"
       /\ result = Raise("InvalidStructuredData")
       /\ xml_str = None

\* C6 witness: a record whose article is a template string was rejected
C6_Witness ==
    /\ pc = "raised"
    /\ "article" \in DOMAIN data
    /\ data.article.j = "str"
    /\ result.err = "InvalidStructuredData"

\* the prefix map names are resolved against
ActiveMap ==
    IF "namespaces" \in DOMAIN data THEN AsMap(data.namespaces) ELSE AsMap(NSMAP)

\* name is prefix:local with a prefix the map does not declare
UnknownPrefix(n, m) == HasColon(n) /\ PrefixOf(n) \notin DOMAIN m

\* the structural faults of a structured node and of the nodes below it
RECURSIVE Faults(_, _, _)
Faults(node, use_namespaces, m) ==
    LET attrs    == Get(node, "attrs", <<>>)
        children == Get(node, "children", <<>>)
    IN  IF Get(node, "type", "element") = "comment" THEN {}
        ELSE IF Get(node, "type", "element") # "element"
             THEN {"UnsupportedNodeType"}
        ELSE (IF Get(node, "tag", <<>>) = <<>> THEN {"MissingTag"} ELSE {})
             \cup (IF /\ use_namespaces
                      /\ \/ UnknownPrefix(Get(node, "tag", <<>>), m)
                         \/ \E i \in 1..Len(attrs) :
                                /\ UnknownPrefix(attrs[i].k, m)
                                /\ PrefixOf(attrs[i].k) # <<"x","m","l">>
                   THEN {"UnknownPrefix"} ELSE {})
             \cup UNION { Faults(children[i], use_namespaces, m) :
                            i \in 1..Len(children) }

Segment(s, included) == IF included THEN s ELSE <<>>

\* C8 (as claimed): the rendered text is declaration + decl-suffix + doctype +
\* doctype-suffix + body, each of the four segments included if and only if
\* that segment itself is non-empty.
C8_EachSegmentIffNonEmpty ==
    pc = "done" =>
        result.val =
            Get(data, "xml_declaration", <<>>) \o Get(data, "xml_decl_suffix", <<>>)
            \o Get(data, "doctype", <<>>) \o Get(data, "doctype_suffix", <<>>)
            \o xml_str

\* C8 (amended): the rendered text is declaration + decl-suffix + doctype +
\* doctype-suffix + body in that order, where the declaration and the doctype
\* are included iff non-empty and each suffix is included iff the segment it
\* follows (the declaration, the doctype) is non-empty.
C8_SuffixFollowsItsSegment ==
    pc = "done" =>
        result.val =
            Get(data, "xml_declaration", <<>>)
            \o Segment(Get(data, "xml_decl_suffix", <<>>),
                       Get(data, "xml_declaration", <<>>) # <<>>)
            \o Get(data, "doctype", <<>>)
            \o Segment(Get(data, "doctype_suffix", <<>>),
                       Get(data, "doctype", <<>>) # <<>>)
            \o xml_str

\* C8 witness: an envelope with a doctype and its suffix, and a declaration
\* suffix without a declaration, was rendered
C8_Witness ==
    /\ pc = "done"
    /\ Get(data, "xml_declaration", <<>>) = <<>>
    /\ Get(data, "xml_decl_suffix", <<>>) # <<>>
    /\ Get(data, "doctype", <<>>) # <<>>
    /\ Get(data, "doctype_suffix", <<>>) # <<>>
    /\ result.val = T_Doctype \o <<"\n"," ">> \o xml_str

\* the round trip of an XML file has ended: generate then convert returned or
\* raised
RoundTripEnded == xml_text # None /\ pc \in {"parse_failed", "raised", "done"}

\* C1 (as claimed): for every well-formed document with a declaration, a
\* DOCTYPE with an internal subset, mixed namespaced/unnamespaced elements,
\* comments and tail text, parsing it and rendering the structured form
\* succeeds and returns text equal to the document character for character.
C1_RoundTripIdentity ==
    RoundTripEnded => (pc = "done" /\ result = Ok(xml_text))

\* the text of the tree before any stripping: the record rendered with
\* strip_namespaces off
Unstripped == RenderBody(("strip_namespaces" :> FALSE) @@ data).val

\* the root's start tag: the rendered text up to its first ">"
RootStartTag == Slice(Unstripped, 1, Find(Unstripped, <<">">>, 1))

\* C18 (as claimed): when strip_namespaces is set, the rendered body is the
\* unstripped text with the xmlns / xmlns:* attributes taken out of the root's
\* start tag and everything after that tag left as it is, also when the root
\* tag is prefixed or a descendant has the root's local name.
C18_StripEditsRootOnly ==
    (pc = "done" /\ Get(data, "strip_namespaces", FALSE) = TRUE) =>
        xml_str = SubXmlns(RootStartTag, 1)
                      \o From(Unstripped, Len(RootStartTag) + 1)

\* where the DOCTYPE declaration of the document starts (0 without one)
DoctypeStart == Find(xml_text, <<"<","!","D","O","C","T","Y","P","E">>, 1)

\* where it ends: at its first ">", or after an internal subset at the "]>"
\* that closes the subset
DoctypeEnd ==
    With(Find(xml_text, <<">">>, DoctypeStart), LAMBDA gt :
    With(Find(xml_text, <<"[">>, DoctypeStart), LAMBDA br :
        IF br # 0 /\ br < gt THEN Find(xml_text, <<"]",">">>, br) + 1 ELSE gt))

\* C19 (as claimed): for a document that has been decomposed, the doctype
\* returned is the text from <!DOCTYPE to the declaration's own closing ">"
\* whenever the document has a DOCTYPE, with or without an internal subset,
\* and declaration, declaration suffix, doctype, doctype suffix and body
\* concatenated give the document.
C19_DoctypeSpansItsDeclaration ==
    (xml_text # None /\ pc # "generate") =>
        With(ExtractDeclDoctype(xml_text), LAMBDA d :
            /\ DoctypeStart # 0 =>
                   d.doctype = Slice(xml_text, DoctypeStart, DoctypeEnd)
            /\ d.xml_decl \o d.xml_decl_suffix \o d.doctype \o d.doctype_suffix
                   \o d.parse_text = xml_text)

\* ------------------------------------------------------------------------
\* Validation against the DTD: ElsevierConverter.validate with
\* _validate_with_dtd and _validate_with_patched_dtd
\* (src/t2/convert_elsevier.py)
\* ------------------------------------------------------------------------

\* bound: the largest number of entries of dtd.error_log
MaxErrors == 12

\* f.readline(): the text up to and including the first line feed
ReadLine(text) ==
    With(Find(text, <<"\n">>, 1),
         LAMBDA nl : IF nl = 0 THEN text ELSE Slice(text, 1, nl))

\* a sniff that compares the first line as it is written
SniffHtml_caseSensitive(text) ==
    \/ Contains(ReadLine(text), <<"<","h","t","m","l">>)
    \/ Contains(ReadLine(text), <<"<","!","d","o","c","t","y","p","e",
                                  " ","h","t","m","l">>)

\* first_line = f.readline().lower();
\* '<html' in first_line or '<!doctype html' in first_line
SniffHtml(text) ==
    \/ Contains(Lower(ReadLine(text)), <<"<","h","t","m","l">>)
    \/ Contains(Lower(ReadLine(text)), <<"<","!","d","o","c","t","y",
                                         "p","e"," ","h","t","m","l">>)

\* one printed line; line and message are filled in for a violation record
Printed(msg) == [msg |-> msg, line |-> 0, message |-> ""]

\* print(f"  - Line {error.line}: {error.message}")
PrintedError(error) ==
    [msg |-> "  - Line {error.line}: {error.message}",
     line |-> error.line, message |-> error.message]

\* error_log.filter_from_errors(): the entries of level ERROR or FATAL
FilterFromErrors(error_log) ==
    SelectSeq(error_log, LAMBDA e : e.level \in {"ERROR", "FATAL"})

\* a report of every violation of the log
ReportedErrors_all(error_log) == FilterFromErrors(error_log)

\* dtd.error_log.filter_from_errors()[:10]
ReportedErrors(error_log) == Slice(FilterFromErrors(error_log), 1, 10)

\* a tree check that takes a failed check with an empty error list for a pass
ValidateWithDtd_emptyLogPasses(verdict, error_log) ==
    IF verdict = "DTDValidateError" THEN [ret |-> Raise(verdict), out |-> <<>>]
    ELSE IF verdict = "valid" \/ FilterFromErrors(error_log) = <<>>
    THEN [ret |-> Ok(TRUE),
          out |-> <<Printed("Validation Successful: XML is art570 compliant.")>>]
    ELSE [ret |-> Ok(FALSE),
          out |-> <<Printed("Validation Failed. Structural Errors:")>>
                  \o [k \in 1..Len(ReportedErrors(error_log)) |->
                         PrintedError(ReportedErrors(error_log)[k])]]

\* _validate_with_dtd(dtd, xml_tree), given what dtd.validate(xml_tree) does
\* ("valid", "invalid", or lxml's DTDValidateError on an internal error) and
\* the error log it leaves: the value returned or the exception, and the lines
\* printed
ValidateWithDtd(verdict, error_log) ==
    IF verdict = "DTDValidateError" THEN [ret |-> Raise(verdict), out |-> <<>>]
    ELSE IF verdict = "valid"
    THEN [ret |-> Ok(TRUE),
          out |-> <<Printed("Validation Successful: XML is art570 compliant.")>>]
    ELSE [ret |-> Ok(FALSE),
          out |-> <<Printed("Validation Failed. Structural Errors:")>>
                  \o [k \in 1..Len(ReportedErrors(error_log)) |->
                         PrintedError(ReportedErrors(error_log)[k])]]

\* a dispatch that starts the recovery on every exception of the direct attempt
Dispatch_retriesAnyError(where, exc) ==
    IF where = "direct" THEN "patched_copy"
    ELSE IF exc = "DTDParseError" THEN "returned"
    ELSE "raised"

\* the except clauses of validate (lines 201-212): where control goes when
\* exception exc is raised in the direct attempt (the outer try) or in the
\* recovery (the try inside the DTDParseError handler)
Dispatch(where, exc) ==
    IF where = "direct" /\ exc = "DTDParseError" THEN "patched_copy"
    ELSE IF where = "direct" THEN "returned"
    ELSE IF exc = "DTDParseError" THEN "returned"
    ELSE "raised"

\* open(path, "r").read(): universal newlines turn "\r\n" and "\r" into "\n"
RECURSIVE ReadText(_)
ReadText(bytes) ==
    IF bytes = <<>> THEN <<>>
    ELSE IF Head(bytes) = "\r"
    THEN <<"\n">> \o ReadText(IF Len(bytes) > 1 /\ bytes[2] = "\n"
                              THEN From(bytes, 3) ELSE Tail(bytes))
    ELSE <<Head(bytes)>> \o ReadText(Tail(bytes))

\* open(path, "w").write(content): "\n" becomes os.linesep
RECURSIVE WriteText(_, _)
WriteText(content, linesep) ==
    IF content = <<>> THEN <<>>
    ELSE (IF Head(content) = "\n" THEN linesep ELSE <<Head(content)>>)
             \o WriteText(Tail(content), linesep)

\* the characters of the class [\\s\\S] and of \\s* in the raw pattern of
\* line 245: a backslash, s or S; and the letter s
IsSlashOrS(c) == c \in {"\\", "s", "S"}

IsLetterS(c) == c = "s"

\* the end (exclusive) of a match of >\\s*%mathml-dtd;\\s* at position q,
\* 0 if there is none: ">", a backslash, any number of s, "%mathml-dtd;",
\* a backslash, any number of s
MathmlTailEnd(content, q) ==
    IF Slice(content, q, q + 1) # <<">", "\\">> THEN 0
    ELSE With(SkipWhile(content, q + 2, IsLetterS),
              LAMBDA r :
                  IF Slice(content, r, r + 12) #
                         <<"%","m","a","t","h","m","l","-","d","t","d",
                           ";">> \o <<"\\">>
                  THEN 0
                  ELSE SkipWhile(content, r + 13, IsLetterS))

\* the end (exclusive) of the match of the whole pattern that starts at
\* position i, 0 if there is none; [\\s\\S]*? takes as few characters as
\* possible
MathmlMatchEnd(content, i) ==
    IF Slice(content, i, i + 20) #
           <<"<","!","E","N","T","I","T","Y"," ","%"," ","m","a","t",
             "h","m","l","-","d","t","d">>
    THEN 0
    ELSE With({q \in (i + 21)..SkipWhile(content, i + 21, IsSlashOrS) :
                   MathmlTailEnd(content, q) # 0},
              LAMBDA qs :
                  IF qs = {} THEN 0
                  ELSE MathmlTailEnd(content,
                                     CHOOSE q \in qs : \A o \in qs : q <= o))

\* re.sub(r'<!ENTITY % mathml-dtd[\\s\\S]*?>\\s*%mathml-dtd;\\s*',
\*        '<!ENTITY % mathml-dtd \"\" >\\n', content, count=1)
MathmlSub(content) ==
    With({i \in 1..Len(content) : MathmlMatchEnd(content, i) # 0},
         LAMBDA starts :
             IF starts = {} THEN content
             ELSE With(CHOOSE i \in starts : \A o \in starts : i <= o,
                       LAMBDA i :
                           Slice(content, 1, i - 1)
                               \o <<"<","!","E","N","T","I","T","Y"," ",
                                    "%"," ","m","a","t","h","m","l","-",
                                    "d","t","d"," ","\"","\""," ",">",
                                    "\n">>
                               \o From(content, MathmlMatchEnd(content, i))))

\* _validate_with_patched_dtd, lines 237-252: the text written back to the
\* copy of common170.ent
PatchedCommon(common, qname_mod, linesep) ==
    WriteText(IF qname_mod THEN ReadText(common) ELSE MathmlSub(ReadText(common)),
              linesep)

\* the contents of art570.dtd considered: a DTD, an HTML page in lower and in
\* upper case, an HTML page after an empty first line, an empty file, and a
\* DTD whose first line is a comment that mentions <html>
SampleDtdTexts ==
    { <<"<","!","E","L","E","M","E","N","T"," ","a","r","t","i","c","l",
        "e"," ","(","h","e","a","d",")",">","\n">>,
      <<"<","!","d","o","c","t","y","p","e"," ","h","t","m","l",">",
        "\n","<","h","t","m","l",">">>,
      <<"<","H","T","M","L"," ","l","a","n","g","=","\"","e","n","\"",
        ">","\n">>,
      <<"\n","<","h","t","m","l",">","\n">>,
      <<>>,
      <<"<","!","-","-"," ","n","o","t"," ","<","h","t","m","l",">"," ",
        "-","-",">","\n","<","!","E","L","E","M","E","N","T"," ","a",
        " ","E","M","P","T","Y",">">> }

\* the contents of common170.ent considered: the MathML inclusion as DTDs
\* write it, the inclusion written with the backslashes line 245 asks for,
\* and a file without the inclusion that ends its line with "\r\n"
SampleCommonTexts ==
    { <<"<","!","E","N","T","I","T","Y"," ","%"," ","m","a","t","h","m",
        "l","-","d","t","d"," ","S","Y","S","T","E","M"," ","\"","m",
        "a","t","h","m","l","3",".","d","t","d","\"",">","\n","%","m",
        "a","t","h","m","l","-","d","t","d",";","\n","<","!","E","N",
        "T","I","T","Y"," ","x"," ","\"","y","\"",">">>,
      <<"<","!","E","N","T","I","T","Y"," ","%"," ","m","a","t","h","m",
        "l","-","d","t","d","\\","s",">","\\","s","%","m","a","t","h",
        "m","l","-","d","t","d",";","\\","s","<","!","E","N","T","I",
        "T","Y"," ","x"," ","\"","y","\"",">">>,
      <<"<","!","E","N","T","I","T","Y"," ","x"," ","\"","y","\"",">",
        "\r","\n">> }

\* the trees given to validate: (tag, number of children)
SampleTrees ==
    { [tag |-> "article", children |-> 3], [tag |-> "doc", children |-> 0] }

\* dtd.error_log after a validation: n violations at lines 1..n, after a
\* warning when warned; the logs considered have 0, 1, 10 and MaxErrors
\* violations, or a warning and 10 violations
ErrorLog(n, warned) ==
    (IF warned THEN <<[line |-> 0, level |-> "WARNING", message |-> "w"]>>
     ELSE <<>>)
        \o [k \in 1..n |-> [line |-> k, level |-> "ERROR", message |-> "e"]]

SampleErrorLogs ==
    { ErrorLog(n, FALSE) : n \in {0, 1, 10, MaxErrors} } \cup { ErrorLog(10, TRUE) }

InitValidate ==
    /\ pc = "validate"
    /\ files \in [dtd : SampleDtdTexts \cup {None},
                  common : SampleCommonTexts \cup {None},
                  qname_mod : BOOLEAN,
                  linesep : {<<"\n">>, <<"\r", "\n">>}]
    /\ temp_dir = None
    /\ xml_tree \in SampleTrees
    /\ lib \in [direct_parse : {"ok", "DTDParseError"},
                patched_parse : {"ok", "DTDParseError"},
                verdict : {"valid", "invalid", "DTDValidateError"},
                error_log : SampleErrorLogs]
    /\ out = <<>>
    /\ dtd_calls = <<>>
    /\ ret = Pending
    /\ doc = <<>>
    /\ HeurIdle
    /\ CodecIdle
    /\ LosslessIdle
    /\ BatchIdle
    /\ ConvIdle

\* validate, lines 181-191: the file test and the HTML sniff
CheckSchema ==
    /\ pc = "validate"
    /\ IF files.dtd = None
       THEN /\ out' = Append(out, Printed("ERROR: DTD file missing: {self.dtd_path}"))
            /\ ret' = Ok(FALSE)
            /\ pc' = "returned"
       ELSE IF SniffHtml(files.dtd)
       THEN /\ out' = out \o
                  <<Printed("ERROR: Your art570.dtd file appears to be an HTML webpage."),
                    Printed("Please re-download the RAW DTD files from Elsevier.")>>
            /\ ret' = Ok(FALSE)
            /\ pc' = "returned"
       ELSE /\ pc' = "direct_parse"
            /\ UNCHANGED <<out, ret>>
    /\ UNCHANGED <<files, temp_dir, xml_tree, lib, dtd_calls, heurVars, codecVars, losslessVars, batchVars, convVars>>

\* validate, lines 193-198 and 201-203: etree.DTD on the schema file
DirectParse ==
    /\ pc = "direct_parse"
    /\ dtd_calls' = Append(dtd_calls, "source")
    /\ IF lib.direct_parse = "ok"
       THEN /\ out' = Append(out, Printed("Attempting to parse DTD: {path}"))
            /\ pc' = "direct_validate"
       ELSE /\ out' = out \o
                  <<Printed("Attempting to parse DTD: {path}"),
                    Printed("DTD Parsing Error: {e}"),
                    Printed("Retrying with a patched copy of the DTD/ENT files.")>>
            /\ pc' = Dispatch("direct", lib.direct_parse)
    /\ UNCHANGED <<files, temp_dir, xml_tree, lib, ret, heurVars, codecVars, losslessVars, batchVars, convVars>>

\* validate, line 199 with _validate_with_dtd, and lines 210-212
DirectValidate ==
    /\ pc = "direct_validate"
    /\ With(ValidateWithDtd(lib.verdict, lib.error_log),
            LAMBDA v :
                IF v.ret.err = ""
                THEN /\ out' = out \o v.out
                     /\ ret' = v.ret
                     /\ pc' = "returned"
                ELSE /\ pc' = Dispatch("direct", v.ret.err)
                     /\ out' = Append(out, Printed("Error during validation: {e}"))
                     /\ ret' = Ok(FALSE))
    /\ UNCHANGED <<files, temp_dir, xml_tree, lib, dtd_calls, heurVars, codecVars, losslessVars, batchVars, convVars>>

\* _validate_with_patched_dtd, lines 225-255: the scratch directory, the two
\* copies and the patch of common170.ent; a missing common170.ent raises
\* DTDParseError, which lines 206-209 turn into False
PatchedCopy ==
    /\ pc = "patched_copy"
    /\ IF files.dtd = None \/ files.common = None
       THEN /\ pc' = Dispatch("patched", "DTDParseError")
            /\ out' = out \o
                  <<Printed("DTD Parsing Error (patched copy failed): {patched_error}"),
                    Printed("Check common170.ent for parameter entities using dots in their names.")>>
            /\ ret' = Ok(FALSE)
            /\ temp_dir' = None
       ELSE /\ temp_dir' =
                  [dtd |-> files.dtd,
                   common |-> PatchedCommon(files.common, files.qname_mod, files.linesep)]
            /\ out' = IF files.qname_mod THEN out
                      ELSE Append(out, Printed("Patched DTD: MathML module skipped for validation."))
            /\ pc' = "patched_parse"
            /\ UNCHANGED ret
    /\ UNCHANGED <<files, xml_tree, lib, dtd_calls, heurVars, codecVars, losslessVars, batchVars, convVars>>

\* _validate_with_patched_dtd, line 257: etree.DTD on the copy; a parse error
\* leaves the with block (the scratch directory is removed) and lines 206-209
\* return False
PatchedParse ==
    /\ pc = "patched_parse"
    /\ dtd_calls' = Append(dtd_calls, "temp")
    /\ IF lib.patched_parse = "ok"
       THEN /\ pc' = "patched_validate"
            /\ UNCHANGED <<out, ret, temp_dir>>
       ELSE /\ pc' = Dispatch("patched", lib.patched_parse)
            /\ out' = out \o
                  <<Printed("DTD Parsing Error (patched copy failed): {patched_error}"),
                    Printed("Check common170.ent for parameter entities using dots in their names.")>>
            /\ ret' = Ok(FALSE)
            /\ temp_dir' = None
    /\ UNCHANGED <<files, xml_tree, lib, heurVars, codecVars, losslessVars, batchVars, convVars>>

\* _validate_with_patched_dtd, line 258 with _validate_with_dtd; an exception
\* of dtd.validate is no DTDParseError and leaves validate
PatchedValidate ==
    /\ pc = "patched_validate"
    /\ With(ValidateWithDtd(lib.verdict, lib.error_log),
            LAMBDA v :
                /\ ret' = v.ret
                /\ out' = out \o v.out
                /\ pc' = IF v.ret.err = "" THEN "returned"
                         ELSE Dispatch("patched", v.ret.err))
    /\ temp_dir' = None
    /\ UNCHANGED <<files, xml_tree, lib, dtd_calls, heurVars, codecVars, losslessVars, batchVars, convVars>>

NextValidate ==
    \/ CheckSchema
    \/ DirectParse
    \/ DirectValidate
    \/ PatchedCopy
    \/ PatchedParse
    \/ PatchedValidate

SpecValidate == InitValidate /\ [][NextValidate]_vars

\* ------------------------------------------------------------------------
\* Claims about validate
\* ------------------------------------------------------------------------

\* the first line of the schema file, in lower case
FirstLineLower ==
    Lower(IF Contains(files.dtd, <<"\n">>)
          THEN Slice(files.dtd, 1, Find(files.dtd, <<"\n">>, 1))
          ELSE files.dtd)

\* the schema file is there and its first line looks like an HTML document
SchemaLooksHtml ==
    /\ files.dtd # None
    /\ \/ Contains(FirstLineLower, <<"<","h","t","m","l">>)
       \/ Contains(FirstLineLower,
                   <<"<","!","d","o","c","t","y","p","e"," ","h","t","m","l">>)

\* C13: when the first line of the schema file looks like an HTML document,
\* validate ends by returning False with the HTML error message, and etree.DTD
\* is never called: neither the direct parse nor the recovery is started.
C13_SniffStopsBeforeParse ==
    SchemaLooksHtml =>
        /\ dtd_calls = <<>>
        /\ temp_dir = None
        /\ pc \in {"validate", "returned"}
        /\ pc = "returned" =>
               /\ ret = Ok(FALSE)
               /\ out = <<Printed("ERROR: Your art570.dtd file appears to be an HTML webpage."),
                          Printed("Please re-download the RAW DTD files from Elsevier.")>>

\* C13 witness: validate has returned on a schema file that starts with <HTML
C13_Witness ==
    /\ pc = "returned"
    /\ files.dtd # None
    /\ StartsWith(files.dtd, <<"<","H","T","M","L">>)
    /\ ret = Ok(FALSE)

\* the recovery path has been entered: its message is printed, validate is at
\* one of its steps, or etree.DTD was called on the copy
InRecovery ==
    \/ pc \in {"patched_copy", "patched_parse", "patched_validate"}
    \/ \E k \in 1..Len(out) :
           out[k].msg = "Retrying with a patched copy of the DTD/ENT files."
    \/ \E k \in 1..Len(dtd_calls) : dtd_calls[k] = "temp"

\* C14: in one validate call the recovery is entered at most once (one
\* "Retrying" line, one parse of the copy), only after the direct parse raised
\* DTDParseError and never after the tree was checked, and when the parse of
\* the copy fails too validate has returned False without another attempt.
C14_DirectThenPatchedThenFail ==
    /\ Len(SelectSeq(out, LAMBDA l :
               l.msg = "Retrying with a patched copy of the DTD/ENT files.")) <= 1
    /\ Len(SelectSeq(dtd_calls, LAMBDA c : c = "temp")) <= 1
    /\ Len(SelectSeq(dtd_calls, LAMBDA c : c = "source")) <= 1
    /\ InRecovery =>
           /\ dtd_calls # <<>>
           /\ dtd_calls[1] = "source"
           /\ lib.direct_parse = "DTDParseError"
           /\ \A k \in 1..Len(out) :
                  out[k].msg \in {"Validation Successful: XML is art570 compliant.",
                                  "Validation Failed. Structural Errors:",
                                  "Error during validation: {e}"}
                      => \E j \in 1..(k - 1) :
                             out[j].msg = "Retrying with a patched copy of the DTD/ENT files."
    /\ (Len(dtd_calls) = 2 /\ lib.patched_parse = "DTDParseError") =>
           /\ dtd_calls = <<"source", "temp">>
           /\ pc = "returned"
           /\ ret = Ok(FALSE)
           /\ temp_dir = None

\* C14 witness: the direct parse and the parse of the patched copy both failed
C14_Witness ==
    /\ pc = "returned"
    /\ dtd_calls = <<"source", "temp">>
    /\ lib.patched_parse = "DTDParseError"
    /\ ret = Ok(FALSE)

\* the violations of the error log: its entries that are no warnings
Violations == SelectSeq(lib.error_log, LAMBDA e : e.level # "WARNING")

\* the tree is being checked against a schema that parsed, and does not conform
NonConformingCheck ==
    /\ pc \in {"direct_validate", "patched_validate"}
    /\ lib.verdict = "invalid"

\* C15: the step that checks a non-conforming tree against a parsed schema
\* does not raise: validate returns False, prints the heading and then the
\* first 10 violations at most, each with its line number and message, in the
\* order of the log, and the tree is the one it was given.
C15_NonConformingTreeReported ==
    [][ NonConformingCheck =>
            /\ pc' = "returned"
            /\ ret' = Ok(FALSE)
            /\ out' = Append(out, Printed("Validation Failed. Structural Errors:"))
                      \o [k \in 1..(IF Len(Violations) < 10 THEN Len(Violations) ELSE 10) |->
                             [msg |-> "  - Line {error.line}: {error.message}",
                              line |-> Violations[k].line,
                              message |-> Violations[k].message]]
            /\ xml_tree' = xml_tree ]_vars

\* C15 witness: validate has returned False on a tree with more than 10
\* violations, ten of which were printed
C15_Witness ==
    /\ pc = "returned"
    /\ ret = Ok(FALSE)
    /\ lib.verdict = "invalid"
    /\ Len(Violations) > 10
    /\ Len(SelectSeq(out, LAMBDA l : l.line > 0)) = 10

\* a schema was parsed in this run: the schema file itself, or the patched
\* copy after the schema file failed to parse
SchemaParsed ==
    \/ dtd_calls = <<"source">> /\ lib.direct_parse = "ok"
    \/ dtd_calls = <<"source", "temp">> /\ lib.patched_parse = "ok"

\* C16: validate has no result before it ends; it ends with True only when a
\* schema was parsed (directly or as the patched copy) and the tree conformed
\* to it; with the schema file absent, an HTML schema file, a parse failure
\* followed by a failed recovery, or an exception of the tree check, it ends
\* with False or with the exception raised.
C16_NoDefaultSuccess ==
    /\ pc \notin {"returned", "raised"} => ret = Pending
    /\ pc = "returned" => ret \in {Ok(TRUE), Ok(FALSE)}
    /\ pc = "raised" => ret = Raise("DTDValidateError")
    /\ ret = Ok(TRUE) => SchemaParsed /\ lib.verdict = "valid"
    /\ pc \in {"returned", "raised"} =>
           /\ files.dtd = None => ret = Ok(FALSE)
           /\ SchemaLooksHtml => ret = Ok(FALSE)
           /\ ~SchemaParsed => ret = Ok(FALSE)
           /\ lib.verdict # "valid" => ret # Ok(TRUE)

\* C16 witness: validate has returned True after the schema file failed to
\* parse and the patched copy parsed
C16_Witness ==
    /\ pc = "returned"
    /\ ret = Ok(TRUE)
    /\ dtd_calls = <<"source", "temp">>
    /\ lib.verdict = "valid"

\* the text holds the reference that includes the MathML module
HasMathmlInclusion(text) ==
    Contains(text, <<"%","m","a","t","h","m","l","-","d","t","d",";">>)

\* C24 (as claimed): validate never changes art570.dtd, common170.ent or any
\* other file of the schema directory; the scratch copy of art570.dtd is the
\* original; the scratch copy of common170.ent is identical to the original
\* when mathml3-qname.mod is present, and holds no MathML inclusion when it is
\* absent.
C24_RecoveryWorksOnCopies ==
    [][ /\ files' = files
        /\ (pc = "patched_copy" /\ pc' = "patched_parse") =>
               /\ temp_dir'.dtd = files.dtd
               /\ files.qname_mod => temp_dir'.common = files.common
               /\ ~files.qname_mod => ~HasMathmlInclusion(temp_dir'.common) ]_vars

\* ------------------------------------------------------------------------
\* Batch driver: __main__ with the choice 'all'
\* (src/t2 - Copy - Copy/convert_elsevier.py)
\* ------------------------------------------------------------------------

\* str.endswith
EndsWith(s, suffix) ==
    Len(s) >= Len(suffix) /\ From(s, Len(s) - Len(suffix) + 1) = suffix

\* re.search(r"_(\d+)_original\.docx$", base): group 1, or None without a
\* match; the digits that end where _original.docx begins, after a "_"
DocNumber(base) ==
    IF ~EndsWith(base, <<"_","o","r","i","g","i","n","a","l",".","d",
                         "o","c","x">>)
    THEN None
    ELSE With(Len(base) - 14, LAMBDA e :
         With(CHOOSE d \in 1..(e + 1) :
                  /\ \A k \in d..e : IsDigit(base[k])
                  /\ d = 1 \/ ~IsDigit(base[d - 1]),
              LAMBDA d :
                  IF d <= e /\ d > 1 /\ base[d - 1] = "_"
                  THEN Slice(base, d, e) ELSE None))

\* _derive_output_xml_from_docx for a file of the current directory
DeriveOutputXml(docx_path) ==
    IF DocNumber(docx_path) # None
    THEN <<"o","u","t","p","u","t","_","a","r","t","i","c","l","e","_",
           "f","i","n","a","l">>
             \o <<"_">> \o DocNumber(docx_path) \o <<".","x","m","l">>
    ELSE <<"o","u","t","p","u","t","_","a","r","t","i","c","l","e","_",
           "f","i","n","a","l">>
             \o <<".","x","m","l">>

\* _derive_json_from_docx for a file of the current directory
DeriveJson(docx_path) ==
    IF DocNumber(docx_path) # None
    THEN <<"f","i","n","a","l","_","d","a","t","a">> \o <<"_">>
             \o DocNumber(docx_path) \o <<".","j","s","o","n">>
    ELSE <<"f","i","n","a","l","_","d","a","t","a">> \o <<".","j","s","o","n">>

\* _derive_xml_final_from_docx for a file of the current directory whose name
\* holds _original.docx at most once: the name without _original.docx, or
\* without its extension, and .xml_final.xml
DeriveXmlFinal(docx_path) ==
    (IF EndsWith(docx_path, <<"_","o","r","i","g","i","n","a","l",".",
                              "d","o","c","x">>)
     THEN Slice(docx_path, 1, Len(docx_path) - 14)
     ELSE Slice(docx_path, 1, Len(docx_path) - 5))
        \o <<".","x","m","l","_","f","i","n","a","l",".","x","m","l">>

\* the DOCX files a folder may hold: a_1_original.docx, b.docx, c.docx
SampleDocx ==
    { <<"a","_","1","_","o","r","i","g","i","n","a","l",".","d","o","c",
        "x">>,
      <<"b",".","d","o","c","x">>, <<"c",".","d","o","c","x">> }

\* the contents a structured JSON file may have: a well-formed record, and a
\* record whose "article" is a list
SampleJson ==
    { ("article" :> JsonObj([tag |-> T_cePara, text |-> T_Hello]))
      @@ ("namespaces" :> << [k |-> <<"c","e">>, v |-> URN_TMP_CE] >>),
      ("article" :> [j |-> "list"]) }

\* the contents a source XML file may have: <article>Hi</article>, and
\* <doc><ce:b/></doc>, which lxml rejects for its undeclared prefix
SampleXmlFinal ==
    { <<"<","a","r","t","i","c","l","e",">","H","i","<","/","a","r","t",
        "i","c","l","e",">">>,
      <<"<","d","o","c",">","<","c","e",":","b","/",">","<","/","d","o",
        "c",">">> }

\* the folders considered: every choice of present and absent JSON and XML
\* files for the three documents
SampleFolders ==
    { Opt(DeriveJson(<<"a","_","1","_","o","r","i","g","i","n","a","l",
                       ".","d","o","c","x">>),
          j1 # <<>>, j1[1])
      @@ Opt(DeriveJson(<<"b",".","d","o","c","x">>), j # <<>>, j[1])
      @@ Opt(DeriveXmlFinal(<<"a","_","1","_","o","r","i","g","i","n",
                              "a","l",".","d","o","c","x">>),
             xa # None, xa)
      @@ Opt(DeriveXmlFinal(<<"b",".","d","o","c","x">>), xb # None, xb)
      @@ Opt(DeriveXmlFinal(<<"c",".","d","o","c","x">>), xc # None, xc) :
        j1 \in {<<>>} \cup {<<r>> : r \in SampleJson},
        j \in {<<>>} \cup {<<r>> : r \in SampleJson},
        xa \in SampleXmlFinal \cup {None}, xb \in SampleXmlFinal \cup {None},
        xc \in SampleXmlFinal \cup {None} }

InitBatch ==
    /\ pc = "all"
    /\ docx_files \in { Sorted(s) : s \in SUBSET SampleDocx }
    /\ folder \in SampleFolders
    /\ bi = 1
    /\ printed = <<>>
    /\ exit = Pending
    /\ doc = <<>>
    /\ HeurIdle
    /\ CodecIdle
    /\ LosslessIdle
    /\ ValIdle
    /\ ConvIdle

\* lines 419-422: the choice 'all' with and without DOCX files
BatchEnter ==
    /\ pc = "all"
    /\ IF docx_files = <<>>
       THEN /\ printed' = Append(printed, <<"Error: no DOCX files found.">>)
            /\ exit' = Ok(2)
            /\ pc' = "exited"
       ELSE /\ pc' = "batch"
            /\ UNCHANGED <<printed, exit>>
    /\ UNCHANGED <<docx_files, folder, bi, heurVars, codecVars, losslessVars, valVars, convVars>>

\* the loop goes on to the next document, or ends with sys.exit(0) (line 437)
BatchAdvance ==
    /\ bi' = IF bi < Len(docx_files) THEN bi + 1 ELSE bi
    /\ pc' = IF bi < Len(docx_files) THEN "batch" ELSE "exited"
    /\ exit' = IF bi < Len(docx_files) THEN exit ELSE Ok(0)

\* an exception no one catches ends the program
BatchCrash(exc) ==
    /\ pc' = "crashed"
    /\ exit' = exc
    /\ UNCHANGED bi

\* lines 432-436 for one document: the output file is opened for writing
\* (created or emptied), then convert() runs and its text is written
BatchConvert(docx_path, data_json, dir, lines) ==
    With(ConvertFromStructuredData(dir[data_json]), LAMBDA xml :
        IF xml.err # ""
        THEN /\ folder' = (DeriveOutputXml(docx_path) :> <<>>) @@ dir
             /\ printed' = lines
             /\ BatchCrash(xml)
        ELSE /\ folder' = (DeriveOutputXml(docx_path) :> xml.val) @@ dir
             /\ printed' = Append(lines, <<"Output: ", DeriveOutputXml(docx_path)>>)
             /\ BatchAdvance)

\* lines 423-436: one iteration of `for docx_path in docx_files`
BatchStep ==
    /\ pc = "batch"
    /\ With(docx_files[bi], LAMBDA docx_path :
       With(DeriveJson(docx_path), LAMBDA data_json :
       With(DeriveXmlFinal(docx_path), LAMBDA xml_final :
           IF data_json \in DOMAIN folder
           THEN BatchConvert(docx_path, data_json, folder, printed)
           ELSE IF xml_final \notin DOMAIN folder
           THEN /\ printed' = Append(printed, <<"Skipping: missing XML source ", docx_path>>)
                /\ BatchAdvance
                /\ UNCHANGED folder
           ELSE With(GenerateStructuredJsonFromXml(folder[xml_final]), LAMBDA structured :
                    IF structured.err # ""
                    THEN /\ BatchCrash(structured)
                         /\ UNCHANGED <<folder, printed>>
                    ELSE BatchConvert(docx_path, data_json,
                                      (data_json :> structured.val) @@ folder,
                                      Append(printed, <<"Structured data written to ", data_json>>))))))
    /\ UNCHANGED <<docx_files, heurVars, codecVars, losslessVars, valVars, convVars>>

NextBatch ==
    \/ BatchEnter
    \/ BatchStep

SpecBatch == InitBatch /\ [][NextBatch]_vars

\* ------------------------------------------------------------------------
\* Claims about the batch driver
\* ------------------------------------------------------------------------

\* the batch has ended
BatchEnded == pc \in {"exited", "crashed"}

\* the documents the loop has reached
Attempted == IF docx_files = <<>> THEN {} ELSE 1..bi

\* C17 (as claimed): when the batch has ended, every document of the list was
\* attempted, also the ones that come after a document whose conversion
\* failed.
C17_BatchIndependence ==
    BatchEnded => Attempted = 1..Len(docx_files)
\* ------------------------------------------------------------------------
\* Metadata-driven path: ElsevierConverter.convert and _load_meta
\* (src/t2/convert_elsevier.py)
\* ------------------------------------------------------------------------

\* an element of the meta file: tag, text (None when it has none), attributes
\* and child elements
El(tag, text, attrs, children) ==
    [tag |-> tag, text |-> text, attrs |-> attrs, children |-> children]

\* the children with tag t of the elements els, in document order
RECURSIVE ChildrenTagged(_, _)
ChildrenTagged(els, t) ==
    IF els = <<>> THEN <<>>
    ELSE SelectSeq(Head(els).children, LAMBDA c : c.tag = t)
             \o ChildrenTagged(Tail(els), t)

\* the elements a path "t1/t2/..." selects below el, in document order
RECURSIVE FindAll(_, _)
FindAll(els, path) ==
    IF path = <<>> THEN els
    ELSE FindAll(ChildrenTagged(els, Head(path)), Tail(path))

\* the first item of a list as a list of one item, empty for an empty list
First1(s) == IF s = <<>> THEN <<>> ELSE <<s[1]>>

\* Element.find(path), as the list of the first match (empty: None)
Find1(el, path) == First1(FindAll(<<el>>, path))

\* the elements below els in document order
RECURSIVE Descendants(_)
Descendants(els) ==
    IF els = <<>> THEN <<>>
    ELSE <<Head(els)>> \o Descendants(Head(els).children)
             \o Descendants(Tail(els))

\* tree.find(".//item-info"): the first item-info below the root element
FindItemInfo(tree) ==
    First1(SelectSeq(Descendants(tree.children),
                     LAMBDA e : e.tag = "item-info"))

\* _text(tag): node.text.strip() if node is not None and node.text else ""
Text(item_info, path) ==
    With(Find1(item_info, path), LAMBDA node :
        IF node # <<>> /\ node[1].text # None /\ node[1].text # <<>>
        THEN Strip(node[1].text)
        ELSE <<>>)

\* accept_date.get("yr") of item_info.find("accept-date/date"); empty when the
\* element or the attribute is absent
AcceptYear(item_info) ==
    With(Find1(item_info, <<"accept-date", "date">>), LAMBDA accept_date :
        IF accept_date # <<>> THEN Get(accept_date[1].attrs, "yr", <<>>) ELSE <<>>)

\* the authors list of _load_meta: first-author, then corr-author
MetaAuthors(item_info) ==
    (IF Find1(item_info, <<"first-author">>) # <<>>
     THEN << ("degrees" :> Text(item_info, <<"first-author", "degree">>))
             @@ ("given_name" :> Text(item_info, <<"first-author", "fnm">>))
             @@ ("surname" :> Text(item_info, <<"first-author", "snm">>)) >>
     ELSE <<>>)
    \o
    (IF Find1(item_info, <<"corr-author">>) # <<>>
     THEN << ("degrees" :> Text(item_info, <<"corr-author", "degree">>))
             @@ ("given_name" :> Text(item_info, <<"corr-author", "fnm">>))
             @@ ("surname" :> Text(item_info, <<"corr-author", "snm">>))
             @@ ("email" :> Text(item_info, <<"corr-author", "aff", "ead">>)) >>
     ELSE <<>>)

\* _load_meta, for a meta file that parses: the dict of what item-info holds
LoadMeta(mx) ==
    IF ~mx.path \/ ~mx.isfile THEN <<>>
    ELSE With(FindItemInfo(mx.tree), LAMBDA found :
        IF found = <<>> THEN <<>>
        ELSE ("jid" :> Text(found[1], <<"jid">>))
             @@ ("aid" :> Text(found[1], <<"aid">>))
             @@ ("pii" :> Text(found[1], <<"pii">>))
             @@ ("doi" :> Text(found[1], <<"doi">>))
             @@ ("article_number" :> Text(found[1], <<"article-number">>))
             @@ ("title" :> Text(found[1], <<"item-title">>))
             @@ Opt("copyright_year", AcceptYear(found[1]) # <<>>,
                    AcceptYear(found[1]))
             @@ Opt("authors", MetaAuthors(found[1]) # <<>>,
                    MetaAuthors(found[1])))

\* an element of the built tree without element children
Leaf(tag, text) == [tag |-> tag, text |-> text]

\* convert, lines 36-62: the children of item-info, in order
ItemInfo(m) ==
    << Leaf("jid", Get(m, "jid", <<"C","H","A","O","S">>)),
       Leaf("aid", Get(m, "aid", <<"1","1","5","5","8","1">>)) >>
    \o (IF Get(m, "article_number", <<>>) # <<>>
        THEN << Leaf("ce:article-number", m["article_number"]) >> ELSE <<>>)
    \o << Leaf("ce:pii", Get(m, "pii", <<"U","N","K","N","O","W","N">>)) >>
    \o (IF Get(m, "doi", <<>>) # <<>>
        THEN << Leaf("ce:doi", m["doi"]) >> ELSE <<>>)
    \o << [tag |-> "ce:copyright",
           text |-> Get(m, "copyright_text", <<"C","o","p","y","r","i","g","h","t"," ","(","c",")"," ","E","l","s","e","v","i","e","r"," ","B",".","V",".">>),
           type |-> Get(m, "copyright_type", <<"u","n","k","n","o","w","n">>),
           year |-> Get(m, "copyright_year", <<"2","0","2","4">>)] >>
    \o (IF Get(m, "copyright_line", <<>>) # <<>>
        THEN << Leaf("ce:copyright-line", m["copyright_line"]) >> ELSE <<>>)

\* meta.get("title") or (doc.paragraphs[0].text if doc.paragraphs else
\* "Untitled Document")
HeadTitle(m, paras) ==
    IF Get(m, "title", <<>>) # <<>> THEN m["title"]
    ELSE IF paras # <<>> THEN paras[1].text
    ELSE <<"U","n","t","i","t","l","e","d"," ","D","o","c","u","m","e","n","t">>

\* convert, lines 72-82: the ce:author element of one author of the meta dict
AuthorEl(author) ==
    (IF Get(author, "degrees", <<>>) # <<>>
     THEN << Leaf("ce:degrees", author["degrees"]) >> ELSE <<>>)
    \o << Leaf("ce:given-name", Get(author, "given_name", <<>>)),
          Leaf("ce:surname", Get(author, "surname", <<>>)) >>
    \o (IF Get(author, "email", <<>>) # <<>>
        THEN << Leaf("ce:e-address", author["email"]) >> ELSE <<>>)

\* convert, lines 69-88: the ce:author children of ce:author-group
AuthorGroup(m) ==
    IF Get(m, "authors", <<>>) # <<>>
    THEN [k \in 1..Len(m["authors"]) |-> AuthorEl(m["authors"][k])]
    ELSE << << Leaf("ce:given-name", <<"U","n","k","n","o","w","n">>),
               Leaf("ce:surname", <<"A","u","t","h","o","r">>) >> >>

\* convert, lines 108-115: the section opened for body text that precedes
\* every header, with its ce:section-title "Introduction"
IntroSection == << Leaf("ce:section-title", <<"I","n","t","r","o","d","u","c","t","i","o","n">>) >>

\* convert, lines 120-123: a section without ce:para gets the filler para
Filled(section) ==
    IF SelectSeq(section, LAMBDA c : c.tag = "ce:para") = <<>>
    THEN Append(section, Leaf("ce:para", <<"C","o","n","t","e","n","t"," ","p","e","n","d","i","n","g",".">>))
    ELSE section

\* the (p.text, p.style.name) pairs the documents given to convert are made of
ConvParas ==
    { [text |-> T_Title,    style |-> <<"T","i","t","l","e">>],
      [text |-> T_SomeText, style |-> <<"N","o","r","m","a","l">>],
      [text |-> <<"M","e","t","h","o","d","s">>,  style |-> <<"H","e","a","d","i","n","g"," ","1">>],
      [text |-> <<" ","N","o","t","e","s"," ">>,  style |-> <<"S","u","b","h","e","a","d","i","n","g">>],
      [text |-> <<" ">>,        style |-> <<"N","o","r","m","a","l">>] }

\* the files at docx_path: absent, or a document of at most MaxParas
\* paragraphs
SampleDocxFiles ==
    { [exists |-> FALSE, paragraphs |-> <<>>] }
        \cup { [exists |-> TRUE, paragraphs |-> d] :
                   d \in UNION { [1..n -> ConvParas] : n \in 0..MaxParas } }

\* <first-author> with its fnm, snm and degree children
E_FirstAuthor ==
    El("first-author", None, <<>>,
       << El("fnm", <<" ","A","n","n">>, <<>>, <<>>), El("snm", <<"L","e","e">>, <<>>, <<>>),
          El("degree", <<"P","h","D">>, <<>>, <<>>) >>)

\* <corr-author> with fnm, snm and aff/ead
E_CorrAuthor ==
    El("corr-author", None, <<>>,
       << El("fnm", <<"B","o">>, <<>>, <<>>), El("snm", <<"E","k">>, <<>>, <<>>),
          El("aff", None, <<>>, << El("ead", <<"b","o","@","x",".","o","r","g">>, <<>>, <<>>) >>) >>)

\* the item-info elements of the meta files considered: with and without aid
\* (absent, empty, blank, given), with and without item-title and accept-date,
\* with no author, one, both, or an empty first-author
SampleItemInfos ==
    { El("item-info", None, <<>>,
         << El("jid", <<"C","H","A","O","S">>, <<>>, <<>>) >> \o aid \o more \o authors) :
        aid \in { <<>>,
                  << El("aid", None, <<>>, <<>>) >>,
                  << El("aid", <<" ">>, <<>>, <<>>) >>,
                  << El("aid", <<" ","4","7","1","1"," ">>, <<>>, <<>>) >> },
        more \in { <<>>,
                   << El("item-title", <<"M","e","t","a"," ","t","i","t","l","e">>, <<>>, <<>>),
                      El("accept-date", None, <<>>,
                         << El("date", None, "yr" :> <<"2","0","2","3">>, <<>>) >>) >> },
        authors \in { <<>>,
                      << E_FirstAuthor >>,
                      << E_CorrAuthor >>,
                      << E_FirstAuthor, E_CorrAuthor >>,
                      << El("first-author", None, <<>>, <<>>) >> } }

\* the files at meta_xml_path: no path given, a path that is no file, a file
\* that is not well-formed, a file without item-info, a file whose root is
\* item-info itself, and files that hold an item-info below the root
SampleMetaFiles ==
    { [path |-> FALSE, isfile |-> FALSE, parses |-> FALSE, tree |-> <<>>],
      [path |-> TRUE,  isfile |-> FALSE, parses |-> FALSE, tree |-> <<>>],
      [path |-> TRUE,  isfile |-> TRUE,  parses |-> FALSE, tree |-> <<>>],
      [path |-> TRUE,  isfile |-> TRUE,  parses |-> TRUE,
       tree |-> El("doc", None, <<>>, << El("jid", <<"X">>, <<>>, <<>>) >>)],
      [path |-> TRUE,  isfile |-> TRUE,  parses |-> TRUE,
       tree |-> El("item-info", None, <<>>,
                   << El("aid", <<"4","7","1","1">>, <<>>, <<>>), E_FirstAuthor >>)] }
        \cup { [path |-> TRUE, isfile |-> TRUE, parses |-> TRUE,
                tree |-> El("doc", None, <<>>, <<ii>>)] :
                   ii \in SampleItemInfos }

InitConvert ==
    /\ pc = "convert"
    /\ docx \in SampleDocxFiles
    /\ meta_xml \in SampleMetaFiles
    /\ meta = <<>>
    /\ root = <<>>
    /\ current_section = 0
    /\ pi = 1
    /\ doc = <<>>
    /\ HeurIdle
    /\ CodecIdle
    /\ LosslessIdle
    /\ ValIdle
    /\ BatchIdle

\* convert, lines 25-33: the DOCX is opened, the root element made and the
\* meta file loaded; a missing DOCX raises FileNotFoundError, a meta file that
\* is not well-formed makes etree.parse raise XMLSyntaxError
ConvertOpen ==
    /\ pc = "convert"
    /\ IF ~docx.exists
       THEN /\ pc' = "FileNotFoundError"
            /\ UNCHANGED <<meta, root>>
       ELSE IF meta_xml.path /\ meta_xml.isfile /\ ~meta_xml.parses
       THEN /\ pc' = "XMLSyntaxError"
            /\ root' = [docsubtype |-> <<"f","l","a">>, version |-> <<"5",".","7">>]
            /\ UNCHANGED meta
       ELSE /\ pc' = "item-info"
            /\ root' = [docsubtype |-> <<"f","l","a">>, version |-> <<"5",".","7">>]
            /\ meta' = LoadMeta(meta_xml)
    /\ UNCHANGED <<docx, meta_xml, current_section, pi, heurVars, codecVars, losslessVars, valVars, batchVars>>

\* convert, lines 35-62: item-info
ConvertItemInfo ==
    /\ pc = "item-info"
    /\ root' = ("item_info" :> ItemInfo(meta)) @@ root
    /\ pc' = "head"
    /\ UNCHANGED <<docx, meta_xml, meta, current_section, pi, heurVars, codecVars, losslessVars, valVars, batchVars>>

\* convert, lines 64-93: head with ce:title and ce:author-group, then the
\* empty body; the loop over doc.paragraphs[1:] is entered
ConvertHead ==
    /\ pc = "head"
    /\ root' = ("head" :> [title |-> HeadTitle(meta, docx.paragraphs),
                           author_group |-> AuthorGroup(meta)])
               @@ ("sections" :> <<>>) @@ root
    /\ current_section' = 0
    /\ pi' = 2
    /\ pc' = IF Len(docx.paragraphs) >= 2 THEN "body" ELSE "fill"
    /\ UNCHANGED <<docx, meta_xml, meta, heurVars, codecVars, losslessVars, valVars, batchVars>>

\* convert, lines 95-118: one iteration of `for para in doc.paragraphs[1:]`
ConvertBodyStep ==
    /\ pc = "body"
    /\ With(Strip(docx.paragraphs[pi].text), LAMBDA text :
         IF text = <<>>
         THEN UNCHANGED <<root, current_section>>
         ELSE IF Contains(Lower(docx.paragraphs[pi].style), <<"h","e","a","d","i","n","g">>)
         THEN /\ root' = [root EXCEPT !["sections"] =
                              Append(@, << Leaf("ce:section-title", text) >>)]
              /\ current_section' = Len(root["sections"]) + 1
         ELSE With(IF current_section = 0
                   THEN Append(root["sections"], IntroSection)
                   ELSE root["sections"], LAMBDA opened :
              With(IF current_section = 0 THEN Len(opened)
                   ELSE current_section, LAMBDA parent :
                /\ root' = [root EXCEPT !["sections"] =
                               [opened EXCEPT ![parent] =
                                   Append(@, Leaf("ce:para", text))]]
                /\ current_section' = parent)))
    /\ pi' = IF pi < Len(docx.paragraphs) THEN pi + 1 ELSE pi
    /\ pc' = IF pi < Len(docx.paragraphs) THEN "body" ELSE "fill"
    /\ UNCHANGED <<docx, meta_xml, meta, heurVars, codecVars, losslessVars, valVars, batchVars>>

\* convert, lines 120-125: every section without ce:para gets the filler, and
\* root is returned
ConvertFill ==
    /\ pc = "fill"
    /\ root' = [root EXCEPT !["sections"] =
                   [k \in 1..Len(@) |-> Filled(@[k])]]
    /\ pc' = "converted"
    /\ UNCHANGED <<docx, meta_xml, meta, current_section, pi, heurVars, codecVars, losslessVars, valVars, batchVars>>

NextConvert ==
    \/ ConvertOpen
    \/ ConvertItemInfo
    \/ ConvertHead
    \/ ConvertBodyStep
    \/ ConvertFill

SpecConvert == InitConvert /\ [][NextConvert]_vars

\* ------------------------------------------------------------------------
\* Claims about the sections of the built tree and the metadata defaults
\* ------------------------------------------------------------------------

\* C22 (as claimed, heuristic builder): every section of the tree has a
\* section-title child (which _build_body places before the paras), the
\* section opened for body text that precedes every header included.
C22_SectionHasTitle ==
    \A k \in 1..Len(sections) :
        /\ sections[k].st_id # None
        /\ sections[k].title # None

\* the sections of the tree the metadata-driven convert has built so far
BuiltSections == Get(root, "sections", <<>>)

\* C22, metadata-driven builder: every section of the tree has exactly one
\* section-title child, as its first child, and paras after it; the section
\* opened for body text that precedes every header is titled "Introduction".
C22_MetaPathSectionHasTitle ==
    \A k \in 1..Len(BuiltSections) :
        /\ BuiltSections[k] # <<>>
        /\ BuiltSections[k][1].tag = "ce:section-title"
        /\ \A j \in 2..Len(BuiltSections[k]) :
               BuiltSections[k][j].tag = "ce:para"

\* the metadata-driven convert has returned a tree whose first section was
\* opened for body text that precedes every header
C22_MetaPathWitness ==
    /\ pc = "converted"
    /\ Len(BuiltSections) >= 2
    /\ BuiltSections[1][1].text = <<"I","n","t","r","o","d","u","c","t","i","o","n">>
    /\ Len(BuiltSections[1]) >= 2

\* the item-info section of the meta file, if the file is there and has one
MetaItemInfo ==
    IF meta_xml.path /\ meta_xml.isfile /\ meta_xml.parses
    THEN FindItemInfo(meta_xml.tree)
    ELSE <<>>

\* the metadata supplies an article id: item-info has an aid child with a
\* value
SuppliesAid ==
    /\ MetaItemInfo # <<>>
    /\ \E j \in 1..Len(MetaItemInfo[1].children) :
           /\ MetaItemInfo[1].children[j].tag = "aid"
           /\ MetaItemInfo[1].children[j].text # None
           /\ \E c \in 1..Len(MetaItemInfo[1].children[j].text) :
                  ~IsSpace(MetaItemInfo[1].children[j].text[c])

\* the metadata supplies an author: item-info has a first-author or a
\* corr-author child
SuppliesAuthor ==
    /\ MetaItemInfo # <<>>
    /\ \E j \in 1..Len(MetaItemInfo[1].children) :
           MetaItemInfo[1].children[j].tag \in {"first-author", "corr-author"}

\* the text of the aid element of the built tree
BuiltAid == root["item_info"][2].text

\* C23 (as claimed): in the tree convert returns, the aid element carries the
\* fallback id 115581 whenever the metadata supplies no article id (no meta
\* file, no item-info, or an item-info without an aid value); the author-group
\* holds exactly the one author Unknown / Author whenever the metadata
\* supplies no author; and the author-group is never empty.
C23_MetadataDefaults ==
    pc = "converted" =>
        /\ root["item_info"][2].tag = "aid"
        /\ ~SuppliesAid => BuiltAid = <<"1","1","5","5","8","1">>
        /\ ~SuppliesAuthor =>
               root["head"].author_group =
                   << << Leaf("ce:given-name", <<"U","n","k","n","o","w","n">>),
                         Leaf("ce:surname", <<"A","u","t","h","o","r">>) >> >>
        /\ Len(root["head"].author_group) >= 1


====
